---------------------------- MODULE Spec2Model ----------------------------
(***************************************************************************)
(* A model of the Todo.txt plugin: the line parser (parser.ts), the        *)
(* recurrence calculator (recurrenceCalculator.ts), the task and file      *)
(* services (taskService.ts, fileService.ts) and the edit form             *)
(* (taskDataHandler.ts).                                                    *)
(*                                                                         *)
(* Strings are sequences of one-character strings, so that every regular   *)
(* expression, split, trim and replace of the source is computed on the    *)
(* characters, as the source computes it.  Dates are computed in UTC (the  *)
(* local time zone of the JavaScript Date object is taken to be UTC).      *)
(***************************************************************************)
EXTENDS Integers, Sequences, FiniteSets, TLC

VARIABLES
    content,      \* the text of the todo file (vault.read / vault.modify)
    todoItems,    \* TodoTxtView.todoItems: the tasks parsed at the last load
    today,        \* new Date().toISOString().split("T")[0]
    last,         \* a record of the last mutation the view's handlers ran
    line,         \* the argument of parseTodoLine
    item,         \* its result: <<>> before the call, <<task>> after it
    built,        \* the line the edit form builds from item, unmodified
    currentDue,   \* the arguments of calculateNextDueDate
    recPattern,
    nextDue,      \* its result
    filterState,  \* FilterManager.state
    filtered,     \* the tasks the view shows: applyFilters(todoItems)
    calls,        \* the calls of the services that have not returned yet
    settings      \* ProjectManager: allKnownProjects, pinnedProjects, projectIcons

vars ==
    <<content, todoItems, today, last, line, item, built, currentDue, recPattern,
      nextDue, filterState, filtered, calls, settings>>

\* no call is under way
NoCalls == <<>>

\* the project lists of a file that has no settings saved: loadPinnedProjects,
\* loadAllKnownProjects, loadProjectIcons
InitialSettings ==
    [allKnownProjects |-> {}, pinnedProjects |-> {}, projectIcons |-> {}]

-----------------------------------------------------------------------------
(* Characters and character classes of JavaScript regular expressions.     *)

DigitSeq == <<"0", "1", "2", "3", "4", "5", "6", "7", "8", "9">>

Digits == {DigitSeq[i] : i \in 1..Len(DigitSeq)}

UpperSeq ==
    <<"A", "B", "C", "D", "E", "F", "G", "H", "I", "J", "K", "L", "M",
      "N", "O", "P", "Q", "R", "S", "T", "U", "V", "W", "X", "Y", "Z">>

LowerSeq ==
    <<"a", "b", "c", "d", "e", "f", "g", "h", "i", "j", "k", "l", "m",
      "n", "o", "p", "q", "r", "s", "t", "u", "v", "w", "x", "y", "z">>

Upper == {UpperSeq[i] : i \in 1..Len(UpperSeq)}

Lower == {LowerSeq[i] : i \in 1..Len(LowerSeq)}

\* \w
WordChars == Digits \cup Upper \cup Lower \cup {"_"}

\* \s (the characters of it that a text file holds)
Space == {" ", "\t", "\n", "\r"}

NL == "\n"

-----------------------------------------------------------------------------
(* String operations of JavaScript, on sequences of characters.            *)

Take(s, n) == SubSeq(s, 1, n)

Drop(s, n) == SubSeq(s, n + 1, Len(s))

MinOf(S) == CHOOSE x \in S : \A y \in S : x <= y

MaxOf(S) == CHOOSE x \in S : \A y \in S : y <= x

\* String.prototype.trim
Trim(s) ==
    LET keep == {i \in 1..Len(s) : s[i] \notin Space}
    IN  IF keep = {} THEN <<>> ELSE SubSeq(s, MinOf(keep), MaxOf(keep))

\* String.prototype.startsWith
StartsWith(s, p) == Len(p) <= Len(s) /\ Take(s, Len(p)) = p

\* whether p occurs in s at index i (1-based)
OccursAt(s, p, i) == i >= 1 /\ i + Len(p) - 1 <= Len(s) /\ SubSeq(s, i, i + Len(p) - 1) = p

\* String.prototype.indexOf, 1-based, 0 when absent
IndexOf(s, p) ==
    LET at == {i \in 1..(Len(s) + 1) : OccursAt(s, p, i)}
    IN  IF at = {} THEN 0 ELSE MinOf(at)

\* String.prototype.includes
Includes(s, p) == IndexOf(s, p) # 0

\* String.prototype.replace(/p/g, r) for a literal, non-empty p
RECURSIVE ReplaceAll(_, _, _)
ReplaceAll(s, p, r) ==
    LET i == IndexOf(s, p)
    IN  IF i = 0 THEN s
        ELSE Take(s, i - 1) \o r \o ReplaceAll(Drop(s, i + Len(p) - 1), p, r)

\* String.prototype.split(c) for a one-character separator c
RECURSIVE SplitOn(_, _)
SplitOn(s, c) ==
    LET at == {i \in 1..Len(s) : s[i] = c}
    IN  IF at = {} THEN <<s>>
        ELSE <<Take(s, MinOf(at) - 1)>> \o SplitOn(Drop(s, MinOf(at)), c)

\* String.prototype.split(/\s+/)
RECURSIVE SplitWS(_)
SplitWS(s) ==
    LET sp == {i \in 1..Len(s) : s[i] \in Space}
    IN  IF sp = {} THEN <<s>>
        ELSE LET i == MinOf(sp)
                 rest == {j \in (i + 1)..Len(s) : s[j] \notin Space}
                 j == IF rest = {} THEN Len(s) + 1 ELSE MinOf(rest)
             IN  <<Take(s, i - 1)>> \o SplitWS(Drop(s, j - 1))

\* Array.prototype.join
RECURSIVE JoinWith(_, _)
JoinWith(parts, sep) ==
    IF parts = <<>> THEN <<>>
    ELSE IF Len(parts) = 1 THEN parts[1]
    ELSE parts[1] \o sep \o JoinWith(Tail(parts), sep)

\* Array.prototype.filter((part) => part.length > 0)
RECURSIVE NonEmpty(_)
NonEmpty(parts) ==
    IF parts = <<>> THEN <<>>
    ELSE (IF parts[1] # <<>> THEN <<parts[1]>> ELSE <<>>) \o NonEmpty(Tail(parts))

\* /^\d{4}-\d{2}-\d{2}$/.test(t)
IsDate(t) ==
    /\ Len(t) = 10
    /\ \A i \in {1, 2, 3, 4, 6, 7, 9, 10} : t[i] \in Digits
    /\ t[5] = "-"
    /\ t[8] = "-"

\* /\d{4}-\d{2}-\d{2}/ matches s at index i
DateAt(s, i) == i >= 1 /\ i + 9 <= Len(s) /\ IsDate(SubSeq(s, i, i + 9))

\* /^\([A-Z]\)$/.test(t)
IsPriorityToken(t) == Len(t) = 3 /\ t[1] = "(" /\ t[2] \in Upper /\ t[3] = ")"

-----------------------------------------------------------------------------
(* The JavaScript Date object, in UTC.  A Date is its day number: the days  *)
(* since 1970-01-01.  NaN is encoded as an integer that no computation of   *)
(* the model yields; an invalid Date is a Date whose time value is NaN.     *)

NaN == 0 - 1000000000

Invalid == NaN

\* the day number of year y, month m (1..12), day d
DaysFromCivil(y, m, d) ==
    LET yy == IF m <= 2 THEN y - 1 ELSE y
        era == yy \div 400
        yoe == yy - era * 400
        mp == IF m > 2 THEN m - 3 ELSE m + 9
        doy == (153 * mp + 2) \div 5 + d - 1
        doe == yoe * 365 + yoe \div 4 - yoe \div 100 + doy
    IN  era * 146097 + doe - 719468

\* the year, month (1..12) and day of a day number
CivilFromDays(days) ==
    LET z == days + 719468
        era == z \div 146097
        doe == z - era * 146097
        yoe == (doe - doe \div 1460 + doe \div 36524 - doe \div 146096) \div 365
        doy == doe - (365 * yoe + yoe \div 4 - yoe \div 100)
        mp == (5 * doy + 2) \div 153
        d == doy - (153 * mp + 2) \div 5 + 1
        m == IF mp < 10 THEN mp + 3 ELSE mp - 9
    IN  [y |-> yoe + era * 400 + (IF m <= 2 THEN 1 ELSE 0), m |-> m, d |-> d]

\* MakeDay of ECMAScript: month m0 counts from 0 and may lie outside 0..11,
\* day d may lie outside the month; both carry over
MakeDate(y, m0, d) ==
    DaysFromCivil(y + (m0 \div 12), (m0 % 12) + 1, 1) + d - 1

getFullYear(date) == CivilFromDays(date).y

\* Date.prototype.getMonth: 0..11
getMonth(date) == CivilFromDays(date).m - 1

getDate(date) == CivilFromDays(date).d

\* Date.prototype.getDay: 0 is Sunday; 1970-01-01 was a Thursday
getDay(date) == (date + 4) % 7

\* Date.prototype.setDate, setMonth, setFullYear; a NaN argument gives Invalid
setDate(date, d) ==
    IF date = Invalid \/ d = NaN THEN Invalid
    ELSE MakeDate(getFullYear(date), getMonth(date), d)

setMonth(date, m0) ==
    IF date = Invalid \/ m0 = NaN THEN Invalid
    ELSE MakeDate(getFullYear(date), m0, getDate(date))

setFullYear(date, y) ==
    IF date = Invalid \/ y = NaN THEN Invalid
    ELSE MakeDate(y, getMonth(date), getDate(date))

\* a + b of JavaScript numbers, NaN included
Plus(a, b) == IF a = NaN \/ b = NaN THEN NaN ELSE a + b

\* the decimal digits of n, padded with zeros to width w
RECURSIVE Pad(_, _)
Pad(n, w) ==
    IF w = 0 THEN <<>> ELSE Pad(n \div 10, w - 1) \o <<DigitSeq[(n % 10) + 1]>>

\* the number a string of digits denotes
RECURSIVE Num(_)
Num(digs) ==
    IF digs = <<>> THEN 0
    ELSE 10 * Num(Take(digs, Len(digs) - 1))
         + (CHOOSE v \in 0..9 : DigitSeq[v + 1] = digs[Len(digs)])

\* parseInt(s): the leading digits of s (after an optional sign), else NaN
ParseInt(s) ==
    LET neg == Len(s) > 0 /\ s[1] = "-"
        body == IF Len(s) > 0 /\ s[1] \in {"-", "+"} THEN Tail(s) ELSE s
        stop == {i \in 1..Len(body) : body[i] \notin Digits}
        n == IF stop = {} THEN Len(body) ELSE MinOf(stop) - 1
    IN  IF n = 0 THEN NaN
        ELSE IF neg THEN 0 - Num(Take(body, n)) ELSE Num(Take(body, n))

\* the calendar date y-m-d as YYYY-MM-DD
ISO(y, m, d) == Pad(y, 4) \o <<"-">> \o Pad(m, 2) \o <<"-">> \o Pad(d, 2)

\* date.toISOString().split("T")[0]; toISOString of an invalid Date throws
RangeError == <<"RangeError: Invalid time value">>

toISODate(date) ==
    IF date = Invalid THEN RangeError
    ELSE LET c == CivilFromDays(date) IN ISO(c.y, c.m, c.d)

\* new Date("YYYY-MM-DD") for a string that IsDate accepts
newDate(s) ==
    LET y == Num(SubSeq(s, 1, 4))
        m == Num(SubSeq(s, 6, 7))
        d == Num(SubSeq(s, 9, 10))
    IN  IF m \in 1..12 /\ d \in 1..31 THEN DaysFromCivil(y, m, 1) + d - 1
        ELSE Invalid

\* String.prototype.toLowerCase
toLowerCase(s) ==
    [i \in 1..Len(s) |->
        IF s[i] \in Upper
        THEN LowerSeq[CHOOSE j \in 1..Len(UpperSeq) : UpperSeq[j] = s[i]]
        ELSE s[i]]

-----------------------------------------------------------------------------
(* recurrenceCalculator.ts: RecurrenceCalculator.  A result is the date as  *)
(* YYYY-MM-DD, RangeError when toISOString throws, or Hang when a while     *)
(* loop of the source never ends.                                           *)

Hang == <<"(does not terminate)">>

DayNames ==
    <<<<"s", "u", "n">>, <<"m", "o", "n">>, <<"t", "u", "e">>, <<"w", "e", "d">>,
      <<"t", "h", "u">>, <<"f", "r", "i">>, <<"s", "a", "t">>>>

MonthNames ==
    <<<<"j", "a", "n">>, <<"f", "e", "b">>, <<"m", "a", "r">>, <<"a", "p", "r">>,
      <<"m", "a", "y">>, <<"j", "u", "n">>, <<"j", "u", "l">>, <<"a", "u", "g">>,
      <<"s", "e", "p">>, <<"o", "c", "t">>, <<"n", "o", "v">>, <<"d", "e", "c">>>>

\* RecurrenceCalculator.getDayNumber: 0..6, -1 for an unknown name
getDayNumber(day) ==
    LET hit == {i \in 1..Len(DayNames) : DayNames[i] = toLowerCase(day)}
    IN  IF hit = {} THEN 0 - 1 ELSE MinOf(hit) - 1

\* RecurrenceCalculator.getMonthNumber: 0..11, -1 for an unknown name
getMonthNumber(month) ==
    LET hit == {i \in 1..Len(MonthNames) : MonthNames[i] = toLowerCase(month)}
    IN  IF hit = {} THEN 0 - 1 ELSE MinOf(hit) - 1

\* Array.prototype.sort((a, b) => a - b) of a sequence of integers
RECURSIVE SortNum(_)
SortNum(s) ==
    IF s = <<>> THEN <<>>
    ELSE LET i == CHOOSE i \in 1..Len(s) : \A j \in 1..Len(s) : s[i] <= s[j]
         IN  <<s[i]>> \o SortNum(SubSeq(s, 1, i - 1) \o SubSeq(s, i + 1, Len(s)))

\* Array.prototype.indexOf, 0-based, -1 when absent
ArrayIndexOf(s, v) ==
    LET hit == {i \in 1..Len(s) : s[i] = v}
    IN  IF hit = {} THEN 0 - 1 ELSE MinOf(hit) - 1

\* /^(\d+)([dwmy])$/ matches p
IsSimplePattern(p) ==
    /\ Len(p) >= 2
    /\ \A i \in 1..(Len(p) - 1) : p[i] \in Digits
    /\ p[Len(p)] \in {"d", "w", "m", "y"}

\* RecurrenceCalculator.calculateWeeklyRecurrence
calculateWeeklyRecurrence(date, interval, dayParts) ==
    LET weeks == ParseInt(interval)
        targetDays == SortNum([i \in 1..Len(dayParts) |-> getDayNumber(dayParts[i])])
        currentDayOfWeek == getDay(date)
        currentDayIndex == ArrayIndexOf(targetDays, currentDayOfWeek)
        wrap == IF weeks = NaN THEN NaN
                ELSE weeks * 7 - currentDayOfWeek + targetDays[1]
        later == {i \in 1..Len(targetDays) : targetDays[i] > currentDayOfWeek}
        daysToAdd ==
            IF currentDayIndex # 0 - 1 /\ currentDayIndex < Len(targetDays) - 1
            THEN targetDays[currentDayIndex + 2] - currentDayOfWeek
            ELSE IF currentDayIndex = Len(targetDays) - 1 THEN wrap
            ELSE IF later # {} THEN targetDays[MinOf(later)] - currentDayOfWeek
            ELSE wrap
    IN  toISODate(setDate(date, Plus(getDate(date), daysToAdd)))

\* while (date.getDate() !== target) date.setDate(0): the last day of the
\* month before, again and again.  It ends only at a month whose last day
\* is target, so never for a target outside 28..31 and never for Invalid.
RECURSIVE BackToDay(_, _)
BackToDay(date, target) ==
    IF date # Invalid /\ getDate(date) = target THEN date
    ELSE IF date = Invalid \/ target = NaN \/ target < 28 \/ target > 31 THEN Invalid
    ELSE BackToDay(setDate(date, 0), target)

\* the result of the loop above followed by toISOString
AfterBackToDay(date, target) ==
    IF BackToDay(date, target) = Invalid THEN Hang
    ELSE toISODate(BackToDay(date, target))

\* dateParts.map(parseInt).filter((d) => !isNaN(d)).map((d) => Math.min(d, 31))
RECURSIVE TargetDates(_)
TargetDates(dateParts) ==
    IF dateParts = <<>> THEN <<>>
    ELSE LET d == ParseInt(dateParts[1])
         IN  (IF d = NaN THEN <<>> ELSE <<IF d < 31 THEN d ELSE 31>>)
             \o TargetDates(Tail(dateParts))

\* RecurrenceCalculator.calculateMonthlyRecurrence
calculateMonthlyRecurrence(date, currentDate, interval, dateParts) ==
    LET months == ParseInt(interval)
    IN  IF Len(dateParts) = 1
        THEN LET parsed == ParseInt(dateParts[1])
                 targetDate == IF parsed = NaN THEN NaN
                               ELSE IF parsed < 31 THEN parsed ELSE 31
                 d1 == setDate(date, targetDate)
                 d2 == IF d1 # Invalid /\ d1 <= currentDate
                       THEN setMonth(d1, Plus(getMonth(d1), months))
                       ELSE d1
             IN  AfterBackToDay(d2, targetDate)
        ELSE LET targetDates == SortNum(TargetDates(dateParts))
                 found == {i \in 1..Len(targetDates) :
                              setDate(date, targetDates[i]) > currentDate}
                 \* !nextTargetDate: nothing found, or the day found is 0
                 none == found = {} \/ targetDates[MinOf(found)] = 0
                 nextTargetDate ==
                     IF ~none THEN targetDates[MinOf(found)]
                     ELSE IF targetDates = <<>> THEN NaN
                     ELSE targetDates[1]
                 addMonths == IF none THEN months ELSE 0
                 d1 == setMonth(date, Plus(getMonth(date), addMonths))
                 d2 == setDate(d1, nextTargetDate)
             IN  AfterBackToDay(d2, nextTargetDate)

\* RecurrenceCalculator.calculateYearlyRecurrence
calculateYearlyRecurrence(date, currentDate, parts) ==
    LET targetDate == ParseInt(parts[2])
        targetMonth == getMonthNumber(parts[1])
        d1 == setDate(setMonth(date, targetMonth), targetDate)
        d2 == IF d1 # Invalid /\ d1 <= currentDate
              THEN setFullYear(d1, getFullYear(d1) + 1)
              ELSE d1
    IN  IF targetMonth = 0 - 1 THEN toISODate(currentDate) ELSE toISODate(d2)

\* RecurrenceCalculator.calculateNextDueDate
calculateNextDueDate(currentDate, pattern) ==
    LET date == currentDate
        parts == SplitOn(pattern, ",")
        interval == parts[1]
    IN  IF IsSimplePattern(pattern)
        THEN LET amount == Num(Take(pattern, Len(pattern) - 1))
                 unit == pattern[Len(pattern)]
             IN  toISODate(
                    CASE unit = "d" -> setDate(date, getDate(date) + amount)
                      [] unit = "w" -> setDate(date, getDate(date) + amount * 7)
                      [] unit = "m" -> setMonth(date, getMonth(date) + amount)
                      [] unit = "y" -> setFullYear(date, getFullYear(date) + amount))
        ELSE IF Len(parts) < 2 THEN toISODate(currentDate)
        ELSE IF interval # <<>> /\ interval[Len(interval)] = "w"
        THEN calculateWeeklyRecurrence(date, interval, Tail(parts))
        ELSE IF interval # <<>> /\ interval[Len(interval)] = "m"
        THEN calculateMonthlyRecurrence(date, currentDate, interval, Tail(parts))
        ELSE calculateYearlyRecurrence(date, currentDate, parts)

-----------------------------------------------------------------------------
(* parser.ts: TodoParser.                                                   *)

SP == <<" ">>

BARS == <<"|", "|">>

\* The start of the leftmost match of /\|\|(.+)$/ in s, 0 when there is none:
\* the first "||" that has at least one character after it.
NotesMatch(s) ==
    LET at == {k \in 1..Len(s) : OccursAt(s, BARS, k) /\ k + 2 <= Len(s)}
    IN  IF at = {} THEN 0 ELSE MinOf(at)

\* The start of the leftmost match of /\s*\|\|.+$/ in s, given that "||" of
\* it starts at k: the white space before k belongs to the match.
NotesSuffixStart(s, k) ==
    MinOf({p \in 1..k : \A q \in p..(k - 1) : s[q] \in Space})

\* part.split(":", 2): at most the first two pieces
SplitColon2(part) ==
    LET pieces == SplitOn(part, ":")
    IN  IF Len(pieces) > 2 THEN Take(pieces, 2) ELSE pieces

\* item.keyValuePairs[key] = value on an object kept as the sequence of its
\* entries in insertion order: an existing key keeps its place
SetKey(kv, key, value) ==
    IF \E i \in 1..Len(kv) : kv[i].key = key
    THEN [i \in 1..Len(kv) |->
            IF kv[i].key = key THEN [key |-> key, value |-> value] ELSE kv[i]]
    ELSE Append(kv, [key |-> key, value |-> value])

\* keyValuePairs[key], <<>> for undefined
GetKey(kv, key) ==
    IF \E i \in 1..Len(kv) : kv[i].key = key
    THEN kv[CHOOSE i \in 1..Len(kv) : kv[i].key = key].value
    ELSE <<>>

\* the body of remainingParts.forEach in parseTodoLine, on one part
Classify(acc, part) ==
    IF StartsWith(part, <<"+">>) /\ Len(part) > 1
    THEN [acc EXCEPT !.projects = Append(@, Tail(part))]
    ELSE IF StartsWith(part, <<"@">>) /\ Len(part) > 1
    THEN [acc EXCEPT !.contexts = Append(@, Tail(part))]
    ELSE IF /\ Includes(part, <<":">>)
            /\ ~Includes(part, SP)
            /\ ~StartsWith(part, <<"h", "t", "t", "p">>)
    THEN LET kv == SplitColon2(part)
         IN  IF kv[1] # <<>> /\ kv[2] # <<>>
             THEN [acc EXCEPT !.keyValuePairs = SetKey(@, kv[1], kv[2])]
             ELSE acc
    ELSE acc

RECURSIVE ClassifyAll(_, _)
ClassifyAll(acc, parts) ==
    IF parts = <<>> THEN acc
    ELSE ClassifyAll(Classify(acc, parts[1]), Tail(parts))

\* descNotesMatch[1].trim().replace(/\\n/g, "\n")
UnescapeNotes(s) == ReplaceAll(Trim(s), <<"\\", "n">>, <<NL>>)

\* LeadingMarkers with the creation date read before the priority
LeadingMarkersDateFirst(parts) ==
    LET At(i) == IF i <= Len(parts) THEN parts[i] ELSE <<>>
        completed == At(1) = <<"x">>
        i1 == IF completed THEN 2 ELSE 1
        hasCompletion == At(i1) # <<>> /\ IsDate(At(i1)) /\ completed
        i2 == IF hasCompletion THEN i1 + 1 ELSE i1
        hasCreation == At(i2) # <<>> /\ IsDate(At(i2))
        i3 == IF hasCreation THEN i2 + 1 ELSE i2
        hasPriority == At(i3) # <<>> /\ IsPriorityToken(At(i3))
    IN  [completed |-> completed,
         completionDate |-> IF hasCompletion THEN At(i1) ELSE <<>>,
         priority |-> IF hasPriority THEN <<At(i3)[2]>> ELSE <<>>,
         creationDate |-> IF hasCreation THEN At(i2) ELSE <<>>,
         index |-> IF hasPriority THEN i3 + 1 ELSE i3]

\* the reading of the leading markers in parseTodoLine: "if (parts[index] ..."
\* four times, index being the number of parts read.  A field the source
\* leaves undefined is <<>>.
LeadingMarkers(parts) ==
    LET \* parts[index]; undefined and "" are both falsy
        At(i) == IF i <= Len(parts) THEN parts[i] ELSE <<>>
        completed == At(1) = <<"x">>
        i1 == IF completed THEN 2 ELSE 1
        hasCompletion == At(i1) # <<>> /\ IsDate(At(i1)) /\ completed
        i2 == IF hasCompletion THEN i1 + 1 ELSE i1
        hasPriority == At(i2) # <<>> /\ IsPriorityToken(At(i2))
        i3 == IF hasPriority THEN i2 + 1 ELSE i2
        hasCreation == At(i3) # <<>> /\ IsDate(At(i3))
    IN  [completed |-> completed,
         completionDate |-> IF hasCompletion THEN At(i1) ELSE <<>>,
         priority |-> IF hasPriority THEN <<At(i2)[2]>> ELSE <<>>,
         creationDate |-> IF hasCreation THEN At(i3) ELSE <<>>,
         index |-> IF hasCreation THEN i3 + 1 ELSE i3]

\* TodoParser.parseTodoLine.  A field the source leaves undefined or "" is <<>>.
parseTodoLine(ln) ==
    LET parts == SplitWS(Trim(ln))
        m == LeadingMarkers(parts)
        joined == JoinWith(SubSeq(parts, m.index, Len(parts)), SP)
        k == NotesMatch(joined)
        remainingLine ==
            IF k = 0 THEN joined
            ELSE Trim(Take(joined, NotesSuffixStart(joined, k) - 1))
        base == [completed |-> m.completed,
                 priority |-> m.priority,
                 creationDate |-> m.creationDate,
                 completionDate |-> m.completionDate,
                 description |-> remainingLine,
                 descriptionNotes |->
                     IF k = 0 THEN <<>> ELSE UnescapeNotes(Drop(joined, k + 1)),
                 projects |-> <<>>,
                 contexts |-> <<>>,
                 keyValuePairs |-> <<>>,
                 raw |-> ln]
    IN  ClassifyAll(base, NonEmpty(SplitWS(remainingLine)))

\* NonBlank with a filter on line.length, the trim left out
RECURSIVE NonBlankUntrimmed(_)
NonBlankUntrimmed(lines) ==
    IF lines = <<>> THEN <<>>
    ELSE (IF Len(lines[1]) > 0 THEN <<lines[1]>> ELSE <<>>)
         \o NonBlankUntrimmed(Tail(lines))

\* the lines that parseTodoTxt keeps: content.split("\n").filter(trim().length > 0)
RECURSIVE NonBlank(_)
NonBlank(lines) ==
    IF lines = <<>> THEN <<>>
    ELSE (IF Len(Trim(lines[1])) > 0 THEN <<lines[1]>> ELSE <<>>)
         \o NonBlank(Tail(lines))

\* TodoParser.parseTodoTxt
parseTodoTxt(text) ==
    LET lines == NonBlank(SplitOn(text, NL))
    IN  [i \in 1..Len(lines) |-> parseTodoLine(lines[i])]

-----------------------------------------------------------------------------
(* The regular expressions of the form /\s*CORE/g that the source removes   *)
(* from a line.  CoreLen is the length of the match of CORE at index i of   *)
(* s, 0 when CORE does not match there (no CORE matches the empty string).  *)

\* the length of the longest run of characters of class at index i of s
RunLen(s, i, class) ==
    LET stop == {j \in i..Len(s) : s[j] \notin class}
    IN  (IF stop = {} THEN Len(s) + 1 ELSE MinOf(stop)) - i

\* the length of the longest run of \S at index i of s
NonSpaceLen(s, i) ==
    LET stop == {j \in i..Len(s) : s[j] \in Space}
    IN  (IF stop = {} THEN Len(s) + 1 ELSE MinOf(stop)) - i

IsWordAt(s, i) == i >= 1 /\ i <= Len(s) /\ s[i] \in WordChars

\* \b between index i - 1 and index i of s
BoundaryAt(s, i) == IsWordAt(s, i - 1) # IsWordAt(s, i)

wOrigProj == <<"o", "r", "i", "g", "P", "r", "o", "j", ":">>

CoreLen(kind, arg, s, i) ==
    CASE kind = "project" ->        \* \+${arg}\b
           IF OccursAt(s, <<"+">> \o arg, i) /\ BoundaryAt(s, i + Len(arg) + 1)
           THEN Len(arg) + 1 ELSE 0
      [] kind = "plusword" ->       \* \+\w+
           IF OccursAt(s, <<"+">>, i) /\ RunLen(s, i + 1, WordChars) > 0
           THEN 1 + RunLen(s, i + 1, WordChars) ELSE 0
      [] kind = "atword" ->         \* @\w+
           IF OccursAt(s, <<"@">>, i) /\ RunLen(s, i + 1, WordChars) > 0
           THEN 1 + RunLen(s, i + 1, WordChars) ELSE 0
      [] kind = "due" ->            \* due:\d{4}-\d{2}-\d{2}
           IF OccursAt(s, <<"d", "u", "e", ":">>, i) /\ DateAt(s, i + 4)
           THEN 14 ELSE 0
      [] kind = "rec" ->            \* rec:\S+
           IF OccursAt(s, <<"r", "e", "c", ":">>, i) /\ NonSpaceLen(s, i + 4) > 0
           THEN 4 + NonSpaceLen(s, i + 4) ELSE 0
      [] kind = "origProj" ->       \* origProj:\S+
           IF OccursAt(s, wOrigProj, i) /\ NonSpaceLen(s, i + 9) > 0
           THEN 9 + NonSpaceLen(s, i + 9) ELSE 0
      [] kind = "keyvalue" ->       \* \w+:\S+
           LET r == RunLen(s, i, WordChars)
           IN  IF r > 0 /\ OccursAt(s, <<":">>, i + r) /\ NonSpaceLen(s, i + r + 1) > 0
               THEN r + 1 + NonSpaceLen(s, i + r + 1) ELSE 0
      [] kind = "sigil" ->          \* [+@!/*]
           IF i <= Len(s) /\ s[i] \in {"+", "@", "!", "/", "*"} THEN 1 ELSE 0
      [] kind = "key" ->            \* \w+:\s*
           LET r == RunLen(s, i, WordChars)
           IN  IF r > 0 /\ OccursAt(s, <<":">>, i + r)
               THEN r + 1 + RunLen(s, i + r + 1, Space) ELSE 0

\* s.replace(/\s*CORE/g, "")
RECURSIVE RemoveAll(_, _, _)
RemoveAll(kind, arg, s) ==
    IF s = <<>> THEN <<>>
    ELSE LET w == RunLen(s, 1, Space)
             n == CoreLen(kind, arg, s, w + 1)
         IN  IF n > 0 THEN RemoveAll(kind, arg, Drop(s, w + n))
             ELSE <<s[1]>> \o RemoveAll(kind, arg, Tail(s))

\* /CORE/.test(s)
Matches(kind, arg, s) == \E i \in 1..Len(s) : CoreLen(kind, arg, s, i) > 0

\* /\bCORE/.test(s)
MatchesAtBoundary(kind, arg, s) ==
    \E i \in 1..Len(s) : BoundaryAt(s, i) /\ CoreLen(kind, arg, s, i) > 0

\* the start of the leftmost match of /due:\d{4}-\d{2}-\d{2}/ in s, 0 for none
DueMatch(s) ==
    LET at == {i \in 1..Len(s) : CoreLen("due", <<>>, s, i) > 0}
    IN  IF at = {} THEN 0 ELSE MinOf(at)

-----------------------------------------------------------------------------
(* taskDataHandler.ts: TaskDataHandler, the form behind the edit modal.     *)

\* the removal of every project of the task, one regular expression each
RECURSIVE RemoveProjects(_, _)
RemoveProjects(description, projects) ==
    IF projects = <<>> THEN description
    ELSE RemoveProjects(RemoveAll("project", projects[1], description), Tail(projects))

\* TaskDataHandler.extractDescriptionWithoutPriorityAndMetadata
extractDescriptionWithoutPriorityAndMetadata(it) ==
    Trim(RemoveAll("due", <<>>,
            RemoveAll("plusword", <<>>,
                RemoveProjects(it.description, it.projects))))

\* TaskDataHandler.populateFromItem, on the fields the constructor has set
populateFromItem(it) ==
    [taskDescription |-> extractDescriptionWithoutPriorityAndMetadata(it),
     priority |-> it.priority,
     selectedProject |->
         IF Len(it.projects) > 0 THEN it.projects[1]
         ELSE <<"I", "n", "b", "o", "x">>,
     dueDate |->
         IF DueMatch(it.description) = 0 THEN <<>>
         ELSE SubSeq(it.description, DueMatch(it.description) + 4,
                     DueMatch(it.description) + 13),
     taskDescriptionNotes |-> it.descriptionNotes,
     editingItem |-> it,
     isEditMode |-> TRUE]

\* The source spells the priority marker of two of its regular expressions
\* KATEX_INLINE_OPEN[A-Z]KATEX_INLINE_CLOSE, which matches these literal words
\* around a capital letter, not "(A)".  The length of its match at index i of
\* s, 0 for none.
KatexOpen ==
    <<"K", "A", "T", "E", "X", "_", "I", "N", "L", "I", "N", "E", "_", "O", "P", "E", "N">>

KatexClose ==
    <<"K", "A", "T", "E", "X", "_", "I", "N", "L", "I", "N", "E", "_",
      "C", "L", "O", "S", "E">>

KatexPriorityLen(s, i) ==
    IF /\ OccursAt(s, KatexOpen, i)
       /\ i + Len(KatexOpen) <= Len(s)
       /\ s[i + Len(KatexOpen)] \in Upper
       /\ OccursAt(s, KatexClose, i + Len(KatexOpen) + 1)
    THEN Len(KatexOpen) + 1 + Len(KatexClose)
    ELSE 0

\* contentCheck.replace(/^\s*KATEX_INLINE_OPEN[A-Z]KATEX_INLINE_CLOSE\s*/, "")
RemoveLeadingPriority(s) ==
    LET w == RunLen(s, 1, Space)
        n == KatexPriorityLen(s, w + 1)
    IN  IF n > 0 THEN Drop(s, w + n + RunLen(s, w + n + 1, Space)) ELSE s

\* what is left of the description when its tags and markers are taken out
contentCheck(trimmedDescription) ==
    RemoveAll("key", <<>>,
      RemoveAll("sigil", <<>>,
        RemoveLeadingPriority(
          RemoveAll("keyvalue", <<>>,
            RemoveAll("rec", <<>>,
              RemoveAll("due", <<>>,
                RemoveAll("atword", <<>>,
                  RemoveAll("plusword", <<>>, trimmedDescription))))))))

\* this.taskDescriptionNotes.replace(/\n/g, "\\n")
EscapeNotes(s) == ReplaceAll(s, <<NL>>, <<"\\", "n">>)

\* the start of the match of /^x\s+(\d{4}-\d{2}-\d{2})/ group 1 in raw, else 0
CompletionMatch(raw) ==
    LET w == RunLen(raw, 2, Space)
    IN  IF StartsWith(raw, <<"x">>) /\ w > 0 /\ DateAt(raw, 2 + w) THEN 2 + w ELSE 0

\* TaskDataHandler.buildTaskLine in edit mode; day is today's date
buildTaskLine(h, day) ==
    LET desc == Trim(h.taskDescription)
        it == h.editingItem
        c == CompletionMatch(it.raw)
        completedPart ==
            IF ~it.completed THEN <<>>
            ELSE IF c # 0 THEN <<"x", " ">> \o SubSeq(it.raw, c, c + 9) \o SP
            ELSE <<"x", " ">> \o day \o SP
        priorityPart ==
            IF h.priority # <<>> THEN <<"(">> \o h.priority \o <<")", " ">> ELSE <<>>
        creationPart ==
            IF ~it.completed /\ it.creationDate # <<>> THEN it.creationDate \o SP
            ELSE <<>>
        hasManualProject == Matches("plusword", <<>>, h.taskDescription)
        projectPart ==
            IF ~hasManualProject /\ h.selectedProject # <<>>
            THEN <<" ", "+">> \o h.selectedProject ELSE <<>>
        hasRecurrence == MatchesAtBoundary("rec", <<>>, h.taskDescription)
        hasDueInDescription == MatchesAtBoundary("due", <<>>, h.taskDescription)
        duePart ==
            IF /\ h.dueDate # <<>>
               /\ ~Includes(h.taskDescription, <<"d", "u", "e", ":">> \o h.dueDate)
            THEN <<" ", "d", "u", "e", ":">> \o h.dueDate
            ELSE IF hasRecurrence /\ h.dueDate = <<>> /\ ~hasDueInDescription
            THEN <<" ", "d", "u", "e", ":">> \o day
            ELSE <<>>
        notesPart ==
            IF h.taskDescriptionNotes # <<>>
            THEN <<" ", "|", "|">> \o EscapeNotes(h.taskDescriptionNotes)
            ELSE <<>>
    IN  IF desc = <<>> THEN <<>>
        ELSE IF Trim(contentCheck(desc)) = <<>> THEN <<>>
        ELSE completedPart \o priorityPart \o creationPart \o desc
             \o projectPart \o duePart \o notesPart

-----------------------------------------------------------------------------
(* fileService.ts: FileService.  A function of the text read from the file  *)
(* gives the text written to it.                                            *)

\* "." of a regular expression matches every character of s
NoLineEnd(s) == \A i \in 1..Len(s) : s[i] \notin {"\n", "\r"}

\* FileService.updateTaskLine
updateTaskLine(text, raw, newLine) ==
    LET lines == SplitOn(text, NL)
    IN  JoinWith([i \in 1..Len(lines) |->
                     IF Trim(lines[i]) = Trim(raw) THEN newLine ELSE lines[i]],
                 <<NL>>)

\* FileService.extractCreationDate: the date matched, <<>> for null
extractCreationDate(taskLine) ==
    LET n == KatexPriorityLen(taskLine, 1)
        w == RunLen(taskLine, n + 1, Space)
    IN  IF n > 0 /\ w > 0 /\ DateAt(taskLine, n + w + 1)
        THEN SubSeq(taskLine, n + w + 1, n + w + 10)
        ELSE IF DateAt(taskLine, 1) THEN Take(taskLine, 10)
        ELSE <<>>

\* FileService.appendTaskLine
\* FileService.deleteTaskLine: the text of the file afterwards
deleteTaskLine(text, raw) ==
    JoinWith(SelectSeq(SplitOn(text, NL), LAMBDA l : Trim(l) # Trim(raw)), <<NL>>)

appendTaskLine(text, taskLine) ==
    LET lines == SplitOn(text, NL)
        lastDate == extractCreationDate(Trim(lines[Len(lines)]))
        newLineDate == extractCreationDate(taskLine)
        separator ==
            IF lastDate # <<>> /\ newLineDate # <<>> /\ lastDate # newLineDate
            THEN <<NL, NL>> ELSE <<NL>>
    IN  IF Trim(text) = <<>> THEN taskLine
        ELSE text \o separator \o taskLine

\* line.replace(new RegExp(`\\+${oldName}\\b`, 'g'), `+${newName}`)
RECURSIVE ReplaceProject(_, _, _)
ReplaceProject(s, oldName, newName) ==
    IF s = <<>> THEN <<>>
    ELSE IF CoreLen("project", oldName, s, 1) > 0
    THEN <<"+">> \o newName
         \o ReplaceProject(Drop(s, CoreLen("project", oldName, s, 1)), oldName, newName)
    ELSE <<s[1]>> \o ReplaceProject(Tail(s), oldName, newName)

\* FileService.replaceProjectName: the text of the file afterwards
replaceProjectName(text, oldName, newName) ==
    LET lines == SplitOn(text, NL)
    IN  JoinWith([i \in 1..Len(lines) |->
                     IF Includes(lines[i], <<"+">> \o oldName)
                     THEN ReplaceProject(lines[i], oldName, newName)
                     ELSE lines[i]],
                 <<NL>>)

\* FileService.removeProjectFromTasks: the text of the file afterwards
removeProjectFromTasks(text, projectName) ==
    JoinWith(SelectSeq(SplitOn(text, NL),
                       LAMBDA l : ~Includes(l, <<"+">> \o projectName)),
             <<NL>>)

\* the projects of the tasks items
ProjectsOf(items) ==
    UNION {{items[i].projects[j] : j \in 1..Len(items[i].projects)} :
           i \in 1..Len(items)}

\* ProjectManager.updateFromTodoItems: every project of a task but Inbox
\* and Archived is known
updateFromTodoItems(st, items) ==
    [st EXCEPT !.allKnownProjects =
                   @ \cup (ProjectsOf(items)
                               \ {<<"I", "n", "b", "o", "x">>,
                                  <<"A", "r", "c", "h", "i", "v", "e", "d">>})]

\* ProjectManager.renameProject: the sets of pinned and of known projects
\* afterwards (projectIcons is changed by the modal, not here)
renameProject(st, oldName, newName) ==
    [st EXCEPT
        !.pinnedProjects =
            IF oldName \in @ THEN (@ \ {oldName}) \cup {newName} ELSE @,
        !.allKnownProjects =
            IF oldName \in @ THEN (@ \ {oldName}) \cup {newName} ELSE @]

\* ProjectManager.deleteProject
deleteProject(st, projectName) ==
    [st EXCEPT !.allKnownProjects = @ \ {projectName},
               !.pinnedProjects = @ \ {projectName},
               !.projectIcons = @ \ {projectName}]

\* ProjectService.updateProjectName: the text of the file afterwards
updateProjectName(text, oldName, newName) ==
    IF oldName = newName THEN text ELSE replaceProjectName(text, oldName, newName)

-----------------------------------------------------------------------------
(* taskService.ts: TaskService.                                             *)

\* TaskService.extractPriorityFromTaskLine: /^\(([A-Z])\)\s+(.+)$/.
\* priority is <<>> for null.
extractPriorityFromTaskLine(taskLine) ==
    LET w == RunLen(taskLine, 4, Space)
        \* \s+ is greedy but leaves one character to (.+)
        skip == IF 3 + w = Len(taskLine) THEN w - 1 ELSE w
    IN  IF /\ Len(taskLine) >= 5
           /\ IsPriorityToken(Take(taskLine, 3))
           /\ skip >= 1
           /\ NoLineEnd(Drop(taskLine, 3 + skip))
        THEN [cleanedLine |-> Drop(taskLine, 3 + skip), priority |-> <<taskLine[2]>>]
        ELSE [cleanedLine |-> taskLine, priority |-> <<>>]

\* the start of the leftmost match of /\brec:(\S+)/ in raw, 0 for none
RecMatch(raw) ==
    LET at == {i \in 1..Len(raw) : BoundaryAt(raw, i) /\ CoreLen("rec", <<>>, raw, i) > 0}
    IN  IF at = {} THEN 0 ELSE MinOf(at)

\* the start of the leftmost match of /(\s+\|\|.*)$/ in s, 0 for none
NotesPartStart(s) ==
    LET at == {p \in 1..Len(s) :
                  /\ s[p] \in Space
                  /\ OccursAt(s, BARS, p + RunLen(s, p, Space))
                  /\ NoLineEnd(Drop(s, p + RunLen(s, p, Space) - 1))}
    IN  IF at = {} THEN 0 ELSE MinOf(at)

\* the line with " key:value" put before its notes, or at its end
InsertBeforeNotes(s, keyValue) ==
    LET p == NotesPartStart(s)
    IN  IF p # 0 THEN Take(s, p - 1) \o SP \o keyValue \o Drop(s, p - 1)
        ELSE s \o SP \o keyValue

\* newTaskLine.replace(/^x\s+\d{4}-\d{2}-\d{2}\s+/, "")
RemoveCompletion(s) ==
    LET c == CompletionMatch(s)
        w == IF c = 0 THEN 0 ELSE RunLen(s, c + 10, Space)
    IN  IF c # 0 /\ w > 0 THEN Drop(s, c + 9 + w) ELSE s

\* newTaskLine, given the start d of the due date in raw and the result of
\* calculateNextDueDate
SiblingWith(raw, d, next) ==
    IF next \in {Hang, RangeError} THEN next
    ELSE RemoveCompletion(Take(raw, d + 3) \o next \o Drop(raw, d + 13))

\* newTaskLine, given the starts r of rec: and d of due: in raw, 0 for no match
SiblingAt(raw, r, d) ==
    IF r = 0 \/ d = 0 THEN <<>>
    ELSE SiblingWith(raw, d,
             calculateNextDueDate(newDate(SubSeq(raw, d + 4, d + 13)),
                                  SubSeq(raw, r + 4, r + 3 + NonSpaceLen(raw, r + 4))))

\* the sibling line of a recurring task: the raw line with its first due date
\* replaced; <<>> when the task does not recur or has no due date
siblingLine(raw) == SiblingAt(raw, RecMatch(raw), DueMatch(raw))

\* the completed form that completeTask writes for the line raw
completedLine(raw, day) ==
    LET e == extractPriorityFromTaskLine(raw)
        s == <<"x", " ">> \o day \o SP \o e.cleanedLine
    IN  IF e.priority # <<>> THEN InsertBeforeNotes(s, <<"p", "r", "i", ":">> \o e.priority) ELSE s

\* the writes of completeTask, given the sibling line: appendTaskLine for a
\* recurring task, then updateTaskLine
WriteCompleted(text, it, day, sibling) ==
    IF sibling \in {Hang, RangeError} THEN text
    ELSE updateTaskLine(IF sibling = <<>> THEN text ELSE appendTaskLine(text, sibling),
                        it.raw, completedLine(it.raw, day))

\* TaskService.completeTask: the text of the file afterwards.  When the
\* recurrence calculation throws or does not end, nothing is written.
completeTask(text, it, day) == WriteCompleted(text, it, day, siblingLine(it.raw))

\* the start of the core of the leftmost match of /\s*pri:([A-Z])\b/ in s, 0
\* for none
PriMatch(s) ==
    LET at == {i \in 1..Len(s) :
                  /\ OccursAt(s, <<"p", "r", "i", ":">>, i)
                  /\ i + 4 <= Len(s)
                  /\ s[i + 4] \in Upper
                  /\ BoundaryAt(s, i + 5)}
    IN  IF at = {} THEN 0 ELSE MinOf(at)

\* the white space right before index i of s: the \s* of the match
SpaceBefore(s, i) ==
    i - MinOf({p \in 1..i : \A q \in p..(i - 1) : s[q] \in Space})

\* the line that uncompleteTask writes for the line raw
uncompletedLine(raw) ==
    LET parts == SplitWS(Trim(raw))
        kept == IF Len(parts) >= 2 /\ parts[1] = <<"x">> /\ IsDate(parts[2])
                THEN SubSeq(parts, 3, Len(parts)) ELSE parts
        taskLine == JoinWith(kept, SP)
        i == PriMatch(taskLine)
    IN  IF i = 0 THEN taskLine
        ELSE <<"(", taskLine[i + 4], ")", " ">>
             \o Take(taskLine, i - 1 - SpaceBefore(taskLine, i))
             \o Drop(taskLine, i + 4)

\* TaskService.uncompleteTask: the text of the file afterwards
uncompleteTask(text, it) == updateTaskLine(text, it.raw, uncompletedLine(it.raw))

-----------------------------------------------------------------------------
(* filterManager.ts: FilterManager.  The filter state is a record, a setter *)
(* is the state after it, and applyFilters is a function of the tasks, the   *)
(* state and the day.  sortOption and selectedTimeFilter, which the source   *)
(* only compares with literals, are TLA+ strings.                            *)

wArchived == <<"A", "r", "c", "h", "i", "v", "e", "d">>

wInboxName == <<"I", "n", "b", "o", "x">>

wNONE == <<"N", "O", "N", "E">>

\* this.state of the constructor
InitialFilterState ==
    [sortOption |-> "priority",
     searchQuery |-> <<>>,
     contextFilter |-> <<>>,
     selectedProject |-> <<>>,
     selectedTimeFilter |-> "",
     archivedFilter |-> FALSE,
     completedFilter |-> FALSE]

setSortOption(st, sortOption) == [st EXCEPT !.sortOption = sortOption]

setSearchQuery(st, query) == [st EXCEPT !.searchQuery = query]

setContextFilter(st, context) == [st EXCEPT !.contextFilter = context]

setProjectFilter(st, project) ==
    [st EXCEPT !.selectedProject = project,
               !.selectedTimeFilter = "",
               !.archivedFilter = FALSE,
               !.completedFilter = FALSE,
               !.contextFilter = <<>>,
               !.sortOption = "priority"]

\* setTimeFilter that leaves the selected project as it is
setTimeFilterKeepsProject(st, filter) ==
    [st EXCEPT !.selectedTimeFilter = filter,
               !.archivedFilter = FALSE,
               !.completedFilter = FALSE,
               !.contextFilter = <<>>,
               !.sortOption = "priority"]

setTimeFilter(st, filter) ==
    [st EXCEPT !.selectedTimeFilter = filter,
               !.selectedProject = <<>>,
               !.archivedFilter = FALSE,
               !.completedFilter = FALSE,
               !.contextFilter = <<>>,
               !.sortOption = "priority"]

setSpecialFilter(st, filter) ==
    [st EXCEPT !.archivedFilter = (filter = "archived"),
               !.completedFilter = (filter = "completed"),
               !.sortOption = IF filter = "completed" THEN "completion"
                              ELSE "priority",
               !.selectedProject = <<>>,
               !.selectedTimeFilter = "",
               !.contextFilter = <<>>]

\* FilterManager.setQuickFilter: switch (filter.toLowerCase())
setQuickFilter(st, filter) ==
    CASE toLowerCase(filter) = <<"a", "l", "l">> ->
           [st EXCEPT !.selectedProject = <<>>,
                      !.selectedTimeFilter = "",
                      !.archivedFilter = FALSE,
                      !.completedFilter = FALSE]
      [] toLowerCase(filter) = <<"i", "n", "b", "o", "x">> ->
           setProjectFilter(st, <<"I", "n", "b", "o", "x">>)
      [] toLowerCase(filter) = <<"t", "o", "d", "a", "y">> ->
           setTimeFilter(st, "today")
      [] toLowerCase(filter) = <<"u", "p", "c", "o", "m", "i", "n", "g">> ->
           setTimeFilter(st, "upcoming")
      [] toLowerCase(filter) = <<"a", "r", "c", "h", "i", "v", "e", "d">> ->
           setSpecialFilter(st, "archived")
      [] toLowerCase(filter) = <<"c", "o", "m", "p", "l", "e", "t", "e", "d">> ->
           setSpecialFilter(st, "completed")
      [] OTHER -> setProjectFilter(st, filter)

\* Array.prototype.includes on an array of strings
ArrayIncludes(arr, v) == \E i \in 1..Len(arr) : arr[i] = v

\* Array.prototype.some((e) => e.toLowerCase().includes(query))
SomeIncludes(arr, query) ==
    \E i \in 1..Len(arr) : Includes(toLowerCase(arr[i]), query)

\* the digits of a string of the form \d{4}-\d{2}-\d{2} as a number: two such
\* strings compare with <= and > as these numbers do
DateDigits(s) == Num(SelectSeq(s, LAMBDA c : c \in Digits))

\* the rest of isTaskInTimeFilter, k being the index of the match of
\* /due:(\d{4}-\d{2}-\d{2})/ in the description, 0 for none
InTimeFilter(k, description, st, day) ==
    IF k = 0 THEN FALSE
    ELSE IF st.selectedTimeFilter = "today"
    THEN DateDigits(SubSeq(description, k + 4, k + 13)) <= DateDigits(day)
    ELSE IF st.selectedTimeFilter = "upcoming"
    THEN DateDigits(SubSeq(description, k + 4, k + 13)) > DateDigits(day)
    ELSE TRUE

\* FilterManager.isTaskInTimeFilter
isTaskInTimeFilter(it, st, day) ==
    InTimeFilter(DueMatch(it.description), it.description, st, day)

\* CategoryStage with the archived view looked at before the completed view
CategoryStageArchivedFirst(items, st) ==
    IF st.archivedFilter
    THEN SelectSeq(items, LAMBDA it : ArrayIncludes(it.projects, wArchived))
    ELSE IF st.completedFilter
    THEN SelectSeq(items, LAMBDA it : it.completed)
    ELSE SelectSeq(items, LAMBDA it :
            ~it.completed /\ ~ArrayIncludes(it.projects, wArchived))

\* applyFilters: the completed view, else the archived view, else the active
\* tasks
CategoryStage(items, st) ==
    IF st.completedFilter
    THEN SelectSeq(items, LAMBDA it : it.completed)
    ELSE IF st.archivedFilter
    THEN SelectSeq(items, LAMBDA it : ArrayIncludes(it.projects, wArchived))
    ELSE SelectSeq(items, LAMBDA it :
            ~it.completed /\ ~ArrayIncludes(it.projects, wArchived))

\* applyFilters: the time filter
TimeStage(items, st, day) ==
    IF st.selectedTimeFilter # "" /\ ~st.archivedFilter /\ ~st.completedFilter
    THEN SelectSeq(items, LAMBDA it : isTaskInTimeFilter(it, st, day))
    ELSE items

\* applyFilters: the search; the query is lower-cased, not trimmed
SearchStage(items, st) ==
    IF Trim(st.searchQuery) # <<>>
    THEN SelectSeq(items, LAMBDA it :
            \/ Includes(toLowerCase(it.description), toLowerCase(st.searchQuery))
            \/ SomeIncludes(it.projects, toLowerCase(st.searchQuery))
            \/ SomeIncludes(it.contexts, toLowerCase(st.searchQuery)))
    ELSE items

\* applyFilters: the context filter
ContextStage(items, st) ==
    IF Trim(st.contextFilter) # <<>>
    THEN IF st.contextFilter = wNONE
         THEN SelectSeq(items, LAMBDA it : Len(it.contexts) = 0)
         ELSE SelectSeq(items, LAMBDA it :
                 ArrayIncludes(it.contexts, st.contextFilter))
    ELSE items

\* ProjectStage with Inbox taken as any other project
ProjectStageInboxExact(items, st) ==
    IF Trim(st.selectedProject) # <<>> /\ ~st.archivedFilter
    THEN SelectSeq(items, LAMBDA it :
            ArrayIncludes(it.projects, st.selectedProject))
    ELSE items

\* applyFilters: the project filter
ProjectStage(items, st) ==
    IF Trim(st.selectedProject) # <<>> /\ ~st.archivedFilter
    THEN IF st.selectedProject = wInboxName
         THEN SelectSeq(items, LAMBDA it :
                 Len(it.projects) = 0 \/ ArrayIncludes(it.projects, wInboxName))
         ELSE SelectSeq(items, LAMBDA it :
                 ArrayIncludes(it.projects, st.selectedProject))
    ELSE items

\* The order of the characters in String.prototype.localeCompare (the root
\* collation): white space, punctuation, digits, letters; a letter and its
\* capital have the same place.
CollationSeq ==
    <<"\t", "\n", " ", "_", "-", ",", ";", ":", "!", "?", ".", "(", ")",
      "[", "]", "@", "*", "/", "&", "#", "%", "+", "<", "=", ">", "|", "~",
      "$">> \o DigitSeq \o LowerSeq

\* the place of character c in that order, 0 for a character not in it
CollationRank(c) ==
    LET lc == toLowerCase(<<c>>)[1]
        at == {i \in 1..Len(CollationSeq) : CollationSeq[i] = lc}
    IN  IF at = {} THEN 0 ELSE MinOf(at)

\* the first difference of a and b in the places of their characters
RECURSIVE ComparePrimary(_, _)
ComparePrimary(a, b) ==
    IF a = <<>> /\ b = <<>> THEN 0
    ELSE IF a = <<>> THEN 0 - 1
    ELSE IF b = <<>> THEN 1
    ELSE IF CollationRank(a[1]) < CollationRank(b[1]) THEN 0 - 1
    ELSE IF CollationRank(a[1]) > CollationRank(b[1]) THEN 1
    ELSE ComparePrimary(Tail(a), Tail(b))

\* a and b differ in case only: the small letter first
RECURSIVE CompareCase(_, _)
CompareCase(a, b) ==
    IF a = <<>> THEN 0
    ELSE IF a[1] = b[1] THEN CompareCase(Tail(a), Tail(b))
    ELSE IF a[1] \in Lower THEN 0 - 1
    ELSE 1

ThenCase(primary, a, b) == IF primary # 0 THEN primary ELSE CompareCase(a, b)

\* a.localeCompare(b): negative, 0 or positive
localeCompare(a, b) == ThenCase(ComparePrimary(a, b), a, b)

\* value || fallback, for a string that is <<>> when undefined
OrElse(value, fallback) == IF value = <<>> THEN fallback ELSE value

wZZZ == <<"z", "z", "z">>

\* getDueDate of sortTasks, k being the index of the match of
\* /due:(\d{4}-\d{2}-\d{2})/ in the description
DueDateAt(k, description) ==
    IF k = 0 THEN <<"9", "9", "9", "9", "-", "9", "9", "-", "9", "9">>
    ELSE SubSeq(description, k + 4, k + 13)

getDueDate(it) == DueDateAt(DueMatch(it.description), it.description)

\* sortKey with a missing priority as the empty string
sortKeyNoSentinel(it, sortOption) ==
    CASE sortOption = "priority" -> it.priority
      [] sortOption = "creation" -> OrElse(it.creationDate, ISO(0, 0, 0))
      [] sortOption = "completion" -> OrElse(it.completionDate, ISO(0, 0, 0))
      [] sortOption = "alphabetical" -> it.description
      [] sortOption = "projects" ->
            IF Len(it.projects) > 0 THEN it.projects[1] ELSE wZZZ
      [] sortOption = "contexts" ->
            IF Len(it.contexts) > 0 THEN it.contexts[1] ELSE wZZZ
      [] sortOption = "duedate" -> getDueDate(it)
      [] OTHER -> <<>>

\* the string of a task that the comparator of sortTasks compares
sortKey(it, sortOption) ==
    CASE sortOption = "priority" -> OrElse(it.priority, <<"Z">>)
      [] sortOption = "creation" -> OrElse(it.creationDate, ISO(0, 0, 0))
      [] sortOption = "completion" -> OrElse(it.completionDate, ISO(0, 0, 0))
      [] sortOption = "alphabetical" -> it.description
      [] sortOption = "projects" ->
            IF Len(it.projects) > 0 THEN it.projects[1] ELSE wZZZ
      [] sortOption = "contexts" ->
            IF Len(it.contexts) > 0 THEN it.contexts[1] ELSE wZZZ
      [] sortOption = "duedate" -> getDueDate(it)
      [] OTHER -> <<>>

\* the comparator of sortTasks
compareTasks(a, b, st) ==
    IF a.completed # b.completed
    THEN (IF a.completed THEN 1 ELSE 0) - (IF b.completed THEN 1 ELSE 0)
    ELSE IF st.sortOption \in {"creation", "completion"}
    THEN localeCompare(sortKey(b, st.sortOption), sortKey(a, st.sortOption))
    ELSE localeCompare(sortKey(a, st.sortOption), sortKey(b, st.sortOption))

\* t put into a sorted sequence before the first task that is not before it
RECURSIVE InsertBeforeEqual(_, _, _)
InsertBeforeEqual(sorted, t, st) ==
    IF sorted = <<>> THEN <<t>>
    ELSE IF compareTasks(sorted[1], t, st) < 0
    THEN <<sorted[1]>> \o InsertBeforeEqual(Tail(sorted), t, st)
    ELSE <<t>> \o sorted

\* a sort that is not stable: tasks that compare equal change places
RECURSIVE sortTasksUnstable(_, _)
sortTasksUnstable(tasks, st) ==
    IF tasks = <<>> THEN <<>>
    ELSE InsertBeforeEqual(sortTasksUnstable(Take(tasks, Len(tasks) - 1), st),
                           tasks[Len(tasks)], st)

\* t put into a sorted sequence before the first task that is after it
RECURSIVE InsertSorted(_, _, _)
InsertSorted(sorted, t, st) ==
    IF sorted = <<>> THEN <<t>>
    ELSE IF compareTasks(sorted[1], t, st) <= 0
    THEN <<sorted[1]>> \o InsertSorted(Tail(sorted), t, st)
    ELSE <<t>> \o sorted

\* FilterManager.sortTasks: Array.prototype.sort, which is stable
RECURSIVE sortTasks(_, _)
sortTasks(tasks, st) ==
    IF tasks = <<>> THEN <<>>
    ELSE InsertSorted(sortTasks(Take(tasks, Len(tasks) - 1), st),
                      tasks[Len(tasks)], st)

\* FilterManager.applyFilters
applyFilters(items, st, day) ==
    sortTasks(
        ProjectStage(
            ContextStage(
                SearchStage(
                    TimeStage(CategoryStage(items, st), st, day), st), st), st), st)

-----------------------------------------------------------------------------
(* taskService.ts: TaskService, archiving by an edit and unarchiving.       *)

wPlusArchived == <<"+">> \o wArchived

wOrigProjKey == <<"o", "r", "i", "g", "P", "r", "o", "j">>

\* newTaskLine with origProj:value put before its notes, unless it holds
\* the text origProj: already
WithOrigProj(newTaskLine, value) ==
    IF Includes(newTaskLine, wOrigProj) THEN newTaskLine
    ELSE InsertBeforeNotes(newTaskLine, wOrigProj \o value)

\* originalItem.projects.filter(p => p !== 'Archived')
NotArchivedProjects(projects) == SelectSeq(projects, LAMBDA p : p # wArchived)

\* TaskService.updateTask: the line that is written
updatedLine(originalItem, newTaskLine) ==
    LET isBeingArchived == Includes(newTaskLine, wPlusArchived)
        wasArchived == ArrayIncludes(originalItem.projects, wArchived)
    IN  IF isBeingArchived /\ ~wasArchived
        THEN IF Len(NotArchivedProjects(originalItem.projects)) > 0
             THEN WithOrigProj(newTaskLine,
                      JoinWith(NotArchivedProjects(originalItem.projects), <<",">>))
             ELSE newTaskLine
        ELSE IF isBeingArchived /\ wasArchived
        THEN IF GetKey(originalItem.keyValuePairs, wOrigProjKey) # <<>>
             THEN WithOrigProj(newTaskLine,
                      GetKey(originalItem.keyValuePairs, wOrigProjKey))
             ELSE newTaskLine
        ELSE newTaskLine

\* TaskService.updateTask: the text of the file afterwards
updateTask(text, originalItem, newTaskLine) ==
    updateTaskLine(text, originalItem.raw, updatedLine(originalItem, newTaskLine))

\* s.replace(/\s*\|\|.*$/g, ''): the first "||" that no line end follows,
\* with the white space before it, to the end
RemoveNotesTail(s) ==
    LET at == {k \in 1..Len(s) : OccursAt(s, BARS, k) /\ NoLineEnd(Drop(s, k + 1))}
    IN  IF at = {} THEN s ELSE Take(s, NotesSuffixStart(s, MinOf(at)) - 1)

\* cleanDescription of moveTaskFromArchivedToInbox
cleanDescription(description) ==
    Trim(RemoveNotesTail(
            RemoveAll("due", <<>>,
                RemoveAll("origProj", <<>>,
                    RemoveAll("plusword", <<>>, description)))))

\* targetProjects of moveTaskFromArchivedToInbox
targetProjects(it) ==
    IF GetKey(it.keyValuePairs, wOrigProjKey) # <<>>
    THEN SplitOn(GetKey(it.keyValuePairs, wOrigProjKey), ",")
    ELSE <<wInboxName>>

\* targetProjects.forEach: newTaskLine += ` +${project}`
RECURSIVE AddProjects(_, _)
AddProjects(ln, projects) ==
    IF projects = <<>> THEN ln
    ELSE AddProjects(ln \o <<" ", "+">> \o projects[1], Tail(projects))

\* item.contexts.forEach: a context the line does not hold yet is added
RECURSIVE AddContexts(_, _)
AddContexts(ln, contexts) ==
    IF contexts = <<>> THEN ln
    ELSE AddContexts(IF Includes(ln, <<"@">> \o contexts[1]) THEN ln
                     ELSE ln \o <<" ", "@">> \o contexts[1],
                     Tail(contexts))

\* Object.entries(item.keyValuePairs).forEach: every pair but origProj, and
\* but pri when the task is completed (the keys of the model are no numbers,
\* so the entries come in the order of insertion)
RECURSIVE AddKeyValues(_, _, _)
AddKeyValues(ln, kv, completed) ==
    IF kv = <<>> THEN ln
    ELSE AddKeyValues(
            IF /\ (kv[1].key # <<"p", "r", "i">> \/ ~completed)
               /\ kv[1].key # wOrigProjKey
            THEN ln \o SP \o kv[1].key \o <<":">> \o kv[1].value
            ELSE ln,
            Tail(kv), completed)

\* the description notes added back
AddNotes(ln, descriptionNotes) ==
    IF descriptionNotes # <<>> THEN ln \o <<" ", "|", "|">> \o EscapeNotes(descriptionNotes)
    ELSE ln

\* moveTaskFromArchivedToInbox: the line that is written
unarchivedLine(it) ==
    AddNotes(
        AddKeyValues(
            AddContexts(
                AddProjects(
                    (IF it.priority # <<>> THEN <<"(">> \o it.priority \o <<")", " ">>
                     ELSE <<>>)
                        \o (IF it.creationDate # <<>> THEN it.creationDate \o SP
                            ELSE <<>>)
                        \o cleanDescription(it.description),
                    targetProjects(it)),
                it.contexts),
            it.keyValuePairs, it.completed),
        it.descriptionNotes)

\* TaskService.deleteTask: the text of the file afterwards
deleteTask(text, it) == deleteTaskLine(text, it.raw)

\* TaskService.moveTaskFromArchivedToInbox: the text of the file afterwards
moveTaskFromArchivedToInbox(text, it) ==
    updateTaskLine(text, it.raw, unarchivedLine(it))

-----------------------------------------------------------------------------
(* The words the inputs of the model are written with.                     *)

Words(ws) == JoinWith(ws, SP)

wX == <<"x">>

wPriA == <<"(", "A", ")">>

wPriB == <<"(", "B", ")">>

wBuy == <<"B", "u", "y">>

wMilk == <<"m", "i", "l", "k">>

wPay == <<"P", "a", "y">>

wRent == <<"r", "e", "n", "t">>

wWork == <<"+", "W", "o", "r", "k">>

wHome == <<"+", "H", "o", "m", "e">>

wInbox == <<"+", "I", "n", "b", "o", "x">>

wFeatures == <<"@", "F", "e", "a", "t", "u", "r", "e", "s">>

wShop == <<"@", "s", "h", "o", "p">>

wPlus == <<"+">>

wAt == <<"@">>

wNote == <<"n", "o", "t", "e">>

wBarsNote == BARS \o wNote

wInnerBars == wMilk \o BARS \o wNote

wTime == <<"t", ":", "1", "0", ":", "3", "0">>

wKeyOnly == <<"k", ":">>

wValueOnly == <<":", "v">>

wUrl == <<"h", "t", "t", "p", ":", "/", "/", "a">>

wDue == <<"d", "u", "e", ":">>

wRec == <<"r", "e", "c", ":">>

wPri == <<"p", "r", "i", ":">>

\* the token due:YYYY-MM-DD
Due(y, m, d) == wDue \o ISO(y, m, d)

\* '(A) 2025-08-03 @Features Buy milk +Inbox due:2025-06-25' (Scenario A)
ScenarioA ==
    Words(<<wPriA, ISO(2025, 8, 3), wFeatures, wBuy, wMilk, wInbox, Due(2025, 6, 25)>>)

-----------------------------------------------------------------------------
(* The inputs of parseTodoLine: every line of at most MaxTokens tokens of   *)
(* ParseTokens, joined by single spaces, and a few lines with other white   *)
(* space.                                                                   *)

MaxTokens == 3

ParseTokens ==
    <<wX, ISO(2025, 8, 3), wPriA, wWork, wShop, wTime, BARS, wInnerBars,
      wBuy, wKeyOnly>>

TokenLines ==
    UNION {{Words([i \in 1..n |-> ParseTokens[f[i]]]) :
               f \in [1..n -> 1..Len(ParseTokens)]} : n \in 0..MaxTokens}

SpacedLines ==
    {ScenarioA,
     <<" ", " ">>,
     <<" ", "\t">> \o Words(<<wX, ISO(2025, 8, 3), wPriA, wBuy>>) \o <<" ">>,
     Words(<<wPriA, wBuy>>) \o <<" ", "\t", "|", "|", " ", " ">>
        \o <<"t", "w", "o", "\\", "n", "l", "i", "n", "e", "s", " ">>,
     Words(<<wBuy, wValueOnly, wAt, wWork, wHome, wTime, Due(2025, 6, 25)>>),
     Words(<<wPriA, wUrl, wPlus, wKeyOnly, wPriA>>),
     Words(<<wUrl, wAt, wPlus>>)}

ParseInputs == TokenLines \cup SpacedLines

NotYet == <<"(not yet)">>

\* the value of last before any mutation ran
NoOp ==
    [op |-> "none", raw |-> <<>>, before |-> <<>>, outcome |-> "none",
     oldName |-> <<>>, newName |-> <<>>]

\* The inputs of parseTodoTxt: the texts of at most MaxTextLines lines of
\* TextLines, a blank line being one of them, joined by "\n".
MaxTextLines == 3

TextLines ==
    <<<<>>, <<" ", "\t">>, ScenarioA, <<" ">> \o Words(<<wX, wBuy>>) \o <<"\r">>>>

ParseTexts ==
    UNION {{JoinWith([i \in 1..n |-> TextLines[f[i]]], <<NL>>) :
               f \in [1..n -> 1..Len(TextLines)]} : n \in 1..MaxTextLines}
        \ {<<>>}

\* either one line for parseTodoLine or one text for parseTodoTxt
InitParse ==
    /\ \/ line \in ParseInputs /\ content = <<>>
       \/ line = <<>> /\ content \in ParseTexts
    /\ item = <<>>
    /\ built = NotYet
    /\ todoItems = <<>>
    /\ today = ISO(2025, 1, 15)
    /\ last = NoOp
    /\ calls = NoCalls
    /\ settings = InitialSettings
    /\ filterState = InitialFilterState
    /\ filtered = NotYet
    /\ currentDue = NotYet
    /\ recPattern = NotYet
    /\ nextDue = NotYet

\* a call of TodoParser.parseTodoLine(line)
ParseLine ==
    /\ content = <<>>
    /\ item = <<>>
    /\ item' = <<parseTodoLine(line)>>
    /\ UNCHANGED <<content, todoItems, today, last, line, built, currentDue,
                   recPattern, nextDue, filterState, filtered,
                   calls, settings>>

\* the edit modal opened on the parsed task and submitted with no change:
\* the constructor's populateFromItem, then buildTaskLine
EditUnmodified ==
    /\ item # <<>>
    /\ built = NotYet
    /\ built' = buildTaskLine(populateFromItem(item[1]), today)
    /\ UNCHANGED <<content, todoItems, today, last, line, item, currentDue,
                   recPattern, nextDue, filterState, filtered,
                   calls, settings>>

\* a call of TodoParser.parseTodoTxt(content)
ParseText ==
    /\ content # <<>>
    /\ todoItems' = parseTodoTxt(content)
    /\ last' = [NoOp EXCEPT !.op = "parseTodoTxt", !.before = content]
    /\ UNCHANGED <<content, today, line, item, built, currentDue,
                   recPattern, nextDue, filterState, filtered,
                   calls, settings>>

NextParse == ParseLine \/ EditUnmodified \/ ParseText

SpecParse == InitParse /\ [][NextParse]_vars

-----------------------------------------------------------------------------
(* What the parser and the edit form are said to do, on the line parsed.    *)

\* the k-th smallest element of a set of numbers
KthOf(S, k) == CHOOSE i \in S : Cardinality({j \in S : j < i}) = k - 1

\* the white-space separated tokens of the line parsed
LineTokens == NonEmpty(SplitWS(Trim(line)))

\* the text of the line parsed after its leading markers
WorkingText ==
    LET parts == SplitWS(Trim(line))
    IN  JoinWith(SubSeq(parts, LeadingMarkers(parts).index, Len(parts)), SP)

\* the structured fields of two tasks are the same
SameFields(a, b) ==
    /\ a.completed = b.completed
    /\ a.priority = b.priority
    /\ a.creationDate = b.creationDate
    /\ a.completionDate = b.completionDate
    /\ a.projects = b.projects
    /\ a.contexts = b.contexts
    /\ a.keyValuePairs = b.keyValuePairs
    /\ a.descriptionNotes = b.descriptionNotes

\* C4: a task that the edit form re-serializes without a change
\* (populateFromItem, then buildTaskLine) parses to the same completed flag,
\* priority, creation date, completion date, projects, contexts, key-value
\* pairs and notes as before.
C4_RoundTripUnmodifiedEdit ==
    (item # <<>> /\ built # NotYet) => SameFields(parseTodoLine(built), item[1])

\* the task 'Buy' comes back from the unmodified edit as 'Buy +Inbox'
C4_Witness ==
    /\ item # <<>>
    /\ line = wBuy
    /\ built = Words(<<wBuy, wInbox>>)

\* the token of the line parsed at index i, <<>> past its end
TokenAt(i) == IF i >= 1 /\ i <= Len(LineTokens) THEN LineTokens[i] ELSE <<>>

\* the number of completion markers that lead the line parsed: "x", and a
\* date right after it
CompletionTokens ==
    IF TokenAt(1) # <<"x">> THEN 0 ELSE IF IsDate(TokenAt(2)) THEN 2 ELSE 1

\* C5: parseTodoLine reads the leading markers in the fixed order "x",
\* completion date, (X), creation date, each optional.  The completion date
\* is set if and only if the first token is "x" and the next one a date; the
\* priority is the (X) token right after the completion markers and the
\* creation date the date right after these; a (X) token that follows the
\* creation date is no priority and starts the description.  Scenario A gives
\* priority A, creation date 2025-08-03, contexts [Features], projects
\* [Inbox] and due: 2025-06-25.
C5_LeadingMarkersInFixedOrder ==
    item # <<>> =>
        LET it == item[1]
            c == CompletionTokens
            p == IF IsPriorityToken(TokenAt(c + 1)) THEN 1 ELSE 0
        IN  /\ it.completed = (TokenAt(1) = <<"x">>)
            /\ (it.completionDate # <<>>) = (TokenAt(1) = <<"x">> /\ IsDate(TokenAt(2)))
            /\ it.completionDate # <<>> => it.completionDate = TokenAt(2)
            /\ it.priority = (IF p = 1 THEN <<TokenAt(c + 1)[2]>> ELSE <<>>)
            /\ it.creationDate =
                   (IF IsDate(TokenAt(c + p + 1)) THEN TokenAt(c + p + 1) ELSE <<>>)
            /\ (IsDate(TokenAt(c + 1)) /\ IsPriorityToken(TokenAt(c + 2))) =>
                   /\ it.priority = <<>>
                   /\ StartsWith(it.description, TokenAt(c + 2))
            /\ line = ScenarioA =>
                   /\ it.priority = <<"A">>
                   /\ it.creationDate = ISO(2025, 8, 3)
                   /\ it.contexts = <<Tail(wFeatures)>>
                   /\ it.projects = <<Tail(wInbox)>>
                   /\ it.keyValuePairs =
                          << [key |-> <<"d", "u", "e">>, value |-> ISO(2025, 6, 25)] >>

\* a line whose priority marker comes after its creation date was parsed
C5_Witness ==
    /\ item # <<>>
    /\ line = Words(<<ISO(2025, 8, 3), wPriA, wBuy>>)
    /\ item[1].description = Words(<<wPriA, wBuy>>)

\* C6: when the text after the leading markers contains "||", the notes are
\* everything after the first "||", trimmed, and the description is the text
\* before it, so the description never contains "||"; also when "||" ends the
\* line and when there are several "||".
C6_NotesAfterFirstBars ==
    (item # <<>> /\ Includes(WorkingText, BARS)) =>
        LET k == IndexOf(WorkingText, BARS)
        IN  /\ item[1].descriptionNotes = UnescapeNotes(Drop(WorkingText, k + 1))
            /\ item[1].description = Trim(Take(WorkingText, k - 1))
            /\ ~Includes(item[1].description, BARS)

\* 'Buy ||' was parsed: the description keeps the "||"
C6_Witness ==
    /\ item # <<>>
    /\ line = Words(<<wBuy, BARS>>)
    /\ item[1].description = Words(<<wBuy, BARS>>)

\* the tokens of the description of the parsed task
DescTokens == NonEmpty(SplitWS(item[1].description))

IsProjectToken(t) == StartsWith(t, <<"+">>) /\ Len(t) > 1

IsContextToken(t) == StartsWith(t, <<"@">>) /\ Len(t) > 1

\* a token for keyValuePairs: not a project, not a context, with ":" in it,
\* not starting with "http", and something on both sides of its first ":"
IsKeyValueToken(t) ==
    /\ ~IsProjectToken(t)
    /\ ~IsContextToken(t)
    /\ Includes(t, <<":">>)
    /\ ~StartsWith(t, <<"h", "t", "t", "p">>)
    /\ IndexOf(t, <<":">>) > 1
    /\ IndexOf(t, <<":">>) < Len(t)

KeyOf(t) == Take(t, IndexOf(t, <<":">>) - 1)

\* the whole text after the first ":"
ValueOf(t) == Drop(t, IndexOf(t, <<":">>))

\* C7: every token of the description is classified by its shape, into at
\* most one class: +Name goes to projects and @Name to contexts, in order of
\* occurrence; any other token with ":" that does not start with "http" is
\* split at its first ":" and, both sides being non-empty, stored under its
\* key with the whole text after that first ":" as the value.
C7_TokenClassification ==
    item # <<>> =>
        LET ts == DescTokens
            it == item[1]
            projectAt == {i \in 1..Len(ts) : IsProjectToken(ts[i])}
            contextAt == {i \in 1..Len(ts) : IsContextToken(ts[i])}
            keyValueAt == {i \in 1..Len(ts) : IsKeyValueToken(ts[i])}
        IN  /\ it.projects = [k \in 1..Cardinality(projectAt) |->
                                 Tail(ts[KthOf(projectAt, k)])]
            /\ it.contexts = [k \in 1..Cardinality(contextAt) |->
                                 Tail(ts[KthOf(contextAt, k)])]
            /\ {e.key : e \in {it.keyValuePairs[j] : j \in 1..Len(it.keyValuePairs)}}
                   = {KeyOf(ts[i]) : i \in keyValueAt}
            /\ \A i \in keyValueAt :
                   (\A j \in keyValueAt : j > i => KeyOf(ts[j]) # KeyOf(ts[i]))
                       => GetKey(it.keyValuePairs, KeyOf(ts[i])) = ValueOf(ts[i])

\* 't:10:30' was parsed: the value stored under t is '10'
C7_Witness ==
    /\ item # <<>>
    /\ line = wTime
    /\ item[1].keyValuePairs = << [key |-> <<"t">>, value |-> <<"1", "0">>] >>

\* the lines of a text
TextLinesOf(text) == SplitOn(text, NL)

\* the fields of a Task and the kinds of their values
IsTask(t) ==
    /\ DOMAIN t = {"completed", "priority", "creationDate", "completionDate",
                   "description", "descriptionNotes", "projects", "contexts",
                   "keyValuePairs", "raw"}
    /\ t.completed \in BOOLEAN
    /\ t.priority = <<>> \/ (Len(t.priority) = 1 /\ t.priority[1] \in Upper)
    /\ t.creationDate = <<>> \/ IsDate(t.creationDate)
    /\ t.completionDate = <<>> \/ IsDate(t.completionDate)
    /\ \A i \in 1..Len(t.projects) : t.projects[i] # <<>>
    /\ \A i \in 1..Len(t.contexts) : t.contexts[i] # <<>>
    /\ \A i \in 1..Len(t.keyValuePairs) :
           t.keyValuePairs[i].key # <<>> /\ t.keyValuePairs[i].value # <<>>

\* C8: parsing is total.  parseTodoLine returns a Task for every line, the
\* empty line, a line of white space and lines with stray "(", ":", "@", "+"
\* and "||" included, its raw being the line; parseTodoTxt returns exactly one
\* Task for each non-blank line of the text, in the order of the file, its
\* raw being that line, and none for a blank line.
C8_ParsingIsTotal ==
    /\ item # <<>> => (IsTask(item[1]) /\ item[1].raw = line)
    /\ last.op = "parseTodoTxt" =>
           LET lines == TextLinesOf(last.before)
               nonBlank == {i \in 1..Len(lines) : lines[i] \notin Seq(Space)}
           IN  /\ Len(todoItems) = Cardinality(nonBlank)
               /\ \A k \in 1..Len(todoItems) :
                      /\ IsTask(todoItems[k])
                      /\ todoItems[k].raw = lines[KthOf(nonBlank, k)]

\* a text with a blank line between two tasks was parsed
C8_Witness ==
    /\ last.op = "parseTodoTxt"
    /\ content = ScenarioA \o <<NL>> \o <<" ", "\t">> \o <<NL>> \o ScenarioA
    /\ Len(todoItems) = 2

-----------------------------------------------------------------------------
(* The inputs of calculateNextDueDate: the due dates from 2025-01-25 on,    *)
(* which hold every weekday and the end of January, and 2025-08-03; the     *)
(* simple patterns <N>d, <N>w, <N>m, <N>y, the weekly patterns with a list  *)
(* of at most MaxDays day names, the monthly patterns <N>m,<D>, the yearly  *)
(* patterns <month>,<day>, and a few patterns that are not understood.      *)

MaxDayOffset == 6

MaxInterval == 2

MaxDays == 3

DueDates ==
    {toISODate(DaysFromCivil(2025, 1, 25) + k) : k \in 0..MaxDayOffset}
        \cup {ISO(2025, 8, 3)}

Intervals == {<<DigitSeq[n + 1]>> : n \in 1..MaxInterval}

SimplePatterns == {n \o <<u>> : n \in Intervals, u \in {"d", "w", "m", "y"}}

\* sun, mon, wed, fri
DayChoice == {DayNames[1], DayNames[2], DayNames[4], DayNames[6]}

DayLists == UNION {[1..n -> DayChoice] : n \in 1..MaxDays}

WeeklyPatterns ==
    {n \o <<"w", ",">> \o JoinWith(days, <<",">>) : n \in Intervals, days \in DayLists}

\* the days of the month of a pattern <N>m,<D>: 35 is taken as 31
MonthDays == {<<"1">>, <<"1", "5">>, <<"3", "0">>, <<"3", "1">>, <<"3", "5">>}

MonthlyPatterns == {n \o <<"m", ",">> \o d : n \in Intervals, d \in MonthDays}

\* jan, feb, sep
MonthChoice == {MonthNames[1], MonthNames[2], MonthNames[9]}

\* the patterns <month>,<day> with a day that every month has
YearlyPatterns == {m \o <<",">> \o d : m \in MonthChoice, d \in {<<"1">>, <<"1", "5">>}}

\* patterns that are not understood: 1x and 1x,1 (unknown unit), 1w,xyz
\* (unknown weekday), foo,15 (unknown month), 1m,ab (day of month not a number)
BadPatterns ==
    {<<"1", "x">>, <<"1", "x", ",", "1">>, <<"1", "w", ",", "x", "y", "z">>,
     <<"f", "o", "o", ",", "1", "5">>, <<"1", "m", ",", "a", "b">>}

RecPatterns ==
    SimplePatterns \cup WeeklyPatterns \cup MonthlyPatterns \cup YearlyPatterns
        \cup BadPatterns

InitRecur ==
    /\ currentDue \in DueDates
    /\ recPattern \in RecPatterns
    /\ nextDue = NotYet
    /\ line = <<>>
    /\ item = <<>>
    /\ built = NotYet
    /\ content = <<>>
    /\ todoItems = <<>>
    /\ today = ISO(2025, 1, 15)
    /\ last = NoOp
    /\ calls = NoCalls
    /\ settings = InitialSettings
    /\ filterState = InitialFilterState
    /\ filtered = NotYet

\* a call of RecurrenceCalculator.calculateNextDueDate(new Date(currentDue),
\* recPattern), as completeTask makes it
Calculate ==
    /\ nextDue = NotYet
    /\ nextDue' = calculateNextDueDate(newDate(currentDue), recPattern)
    /\ UNCHANGED <<content, todoItems, today, last, line, item, built,
                   currentDue, recPattern, filterState, filtered,
                   calls, settings>>

NextRecur == Calculate

SpecRecur == InitRecur /\ [][NextRecur]_vars

-----------------------------------------------------------------------------
(* What the recurrence calculator is said to return.                        *)

\* the number of days of month m (1..12) of year y
DaysInMonth(y, m) ==
    IF m = 12 THEN 31 ELSE DaysFromCivil(y, m + 1, 1) - DaysFromCivil(y, m, 1)

\* C9: for a simple pattern <N>m the next due date lies in the month N
\* months after the month of the due date, on the same day of the month or,
\* when that month has no such day, on its last day: 2025-01-31 with 1m
\* gives 2025-02-28.
C9_SimpleMonthNeverOverflows ==
    (nextDue # NotYet /\ IsSimplePattern(recPattern)
        /\ recPattern[Len(recPattern)] = "m") =>
        LET n == Num(Take(recPattern, Len(recPattern) - 1))
            due == CivilFromDays(newDate(currentDue))
            months == (due.m - 1) + n
            y == due.y + (months \div 12)
            m == (months % 12) + 1
            d == IF due.d <= DaysInMonth(y, m) THEN due.d ELSE DaysInMonth(y, m)
        IN  /\ nextDue = ISO(y, m, d)
            /\ (currentDue = ISO(2025, 1, 31) /\ n = 1) => nextDue = ISO(2025, 2, 28)

\* 2025-01-31 with 1m gave 2025-03-03
C9_Witness ==
    /\ currentDue = ISO(2025, 1, 31)
    /\ recPattern = <<"1", "m">>
    /\ nextDue = ISO(2025, 3, 3)

\* the pattern is <N>w,<day>[,<day>...]
IsWeeklyPattern(p) == p \in WeeklyPatterns

\* C10: for a weekly pattern with day names the next due date is strictly
\* after the due date and falls on a target weekday: the nearest later target
\* weekday of the week of the due date (Sunday to Saturday) when there is one,
\* else the first target weekday of the week N weeks later; for every
\* weekday of the due date, every N >= 1 and every list of days, a list that
\* repeats a day included.  2025-08-03, a Sunday, with 1w,sun,mon,fri gives
\* 2025-08-04.
C10_WeeklyNextTargetWeekday ==
    (nextDue # NotYet /\ IsWeeklyPattern(recPattern)) =>
        LET parts == SplitOn(recPattern, ",")
            n == Num(Take(parts[1], Len(parts[1]) - 1))
            targets == {getDayNumber(parts[i]) : i \in 2..Len(parts)}
            due == newDate(currentDue)
            later == {t \in targets : t > getDay(due)}
            expected ==
                IF later # {} THEN due + (MinOf(later) - getDay(due))
                ELSE due + (n * 7 - getDay(due)) + MinOf(targets)
        IN  /\ IsDate(nextDue)
            /\ newDate(nextDue) > due
            /\ getDay(newDate(nextDue)) \in targets
            /\ newDate(nextDue) = expected
            /\ (currentDue = ISO(2025, 8, 3)
                    /\ recPattern = <<"1", "w", ",">>
                           \o JoinWith(<<DayNames[1], DayNames[2], DayNames[6]>>, <<",">>))
                   => nextDue = ISO(2025, 8, 4)

\* 2025-01-27, a Monday, with 1w,mon,mon gave 2025-01-27 again
C10_Witness ==
    /\ currentDue = ISO(2025, 1, 27)
    /\ recPattern = <<"1", "w", ",">> \o DayNames[2] \o <<",">> \o DayNames[2]
    /\ nextDue = ISO(2025, 1, 27)

\* the pattern is <N>m,<D> with one day of the month
IsMonthlyDayPattern(p) == p \in MonthlyPatterns

\* day d of month m0 (0-based, carried into the year) of year y, or the last
\* day of that month when it has no day d
DayOrLast(y, m0, d) ==
    LET yy == y + (m0 \div 12)
        mm == (m0 % 12) + 1
    IN  ISO(yy, mm, IF d <= DaysInMonth(yy, mm) THEN d ELSE DaysInMonth(yy, mm))

\* C11: for a pattern <N>m,<D> with one day of the month D (above 31 taken
\* as 31) the next due date is day D of the month of the due date when that
\* date is strictly after the due date, else day D of the month N months
\* ahead; when the month so chosen has no day D, it is the last day of that
\* same month.
C11_MonthlyDayOfMonth ==
    (nextDue # NotYet /\ IsMonthlyDayPattern(recPattern)) =>
        LET parts == SplitOn(recPattern, ",")
            n == Num(Take(parts[1], Len(parts[1]) - 1))
            d == MinOf({Num(parts[2]), 31})
            due == CivilFromDays(newDate(currentDue))
            here == DayOrLast(due.y, due.m - 1, d)
        IN  nextDue = IF newDate(here) > newDate(currentDue) THEN here
                      ELSE DayOrLast(due.y, (due.m - 1) + n, d)

\* 2025-01-31 with 1m,31 gave 2025-01-31 again, not the end of February
C11_Witness ==
    /\ currentDue = ISO(2025, 1, 31)
    /\ recPattern = <<"1", "m", ",", "3", "1">>
    /\ nextDue = ISO(2025, 1, 31)

\* the pattern is <month>,<day> with the name of a month
IsYearlyPattern(p) == p \in YearlyPatterns

\* C12: for a pattern <month>,<day> with the name of a month the next due
\* date has exactly that month and that day, in the year of the due date when
\* that is strictly after the due date and one year later otherwise, for
\* every due date, one on the 29th to 31st of its month included.
C12_YearlyMonthAndDay ==
    (nextDue # NotYet /\ IsYearlyPattern(recPattern)) =>
        LET parts == SplitOn(recPattern, ",")
            m == getMonthNumber(parts[1]) + 1
            d == Num(parts[2])
            due == CivilFromDays(newDate(currentDue))
        IN  nextDue = IF newDate(ISO(due.y, m, d)) > newDate(currentDue)
                      THEN ISO(due.y, m, d)
                      ELSE ISO(due.y + 1, m, d)

\* 2025-01-31 with feb,15 gave 2025-03-15
C12_Witness ==
    /\ currentDue = ISO(2025, 1, 31)
    /\ recPattern = MonthNames[2] \o <<",", "1", "5">>
    /\ nextDue = ISO(2025, 3, 15)

\* the pattern is not understood
IsBadPattern(p) == p \in BadPatterns

\* C13: for every pattern that is not understood (unknown unit letter,
\* unknown weekday name, unknown month name, day of the month that is not a
\* number) the call returns the due date unchanged and raises no error.
C13_UnknownPatternReturnsCurrentDue ==
    (nextDue # NotYet /\ IsBadPattern(recPattern)) => nextDue = currentDue

\* 2025-01-27, a Monday, with 1w,xyz gave 2025-02-01
C13_Witness ==
    /\ currentDue = ISO(2025, 1, 27)
    /\ recPattern = <<"1", "w", ",", "x", "y", "z">>
    /\ nextDue = ISO(2025, 2, 1)

-----------------------------------------------------------------------------
(* The view and its filters: the file holds at most MaxTasks different      *)
(* lines of FilterLines, the view has loaded and rendered it, and every     *)
(* change of the filter state renders the view again.                       *)

MaxTasks == 2

wAtHome == <<"@", "h", "o", "m", "e">>

FilterLines ==
    << \* (A) 2025-01-02 Buy milk +Work @home due:2025-01-10
       Words(<<wPriA, ISO(2025, 1, 2), wBuy, wMilk, wWork, wAtHome, Due(2025, 1, 10)>>),
       \* Pay rent
       Words(<<wPay, wRent>>),
       \* x 2025-01-05 2025-01-01 Buy +Inbox pri:B
       Words(<<wX, ISO(2025, 1, 5), ISO(2025, 1, 1), wBuy, wInbox, wPri \o <<"B">> >>),
       \* (A) Pay +Archived @home
       Words(<<wPriA, wPay, wPlusArchived, wAtHome>>),
       \* (A) milk +Inbox due:2025-08-03
       Words(<<wPriA, wMilk, wInbox, Due(2025, 8, 3)>>),
       \* x 2025-01-06 Pay +Archived +Work
       Words(<<wX, ISO(2025, 1, 6), wPay, wPlusArchived, wWork>>) >>

\* the ways to pick n different lines of FilterLines, in any order
Picks(n) ==
    {f \in [1..n -> 1..Len(FilterLines)] : \A i, j \in 1..n : f[i] = f[j] => i = j}

\* 'Pay rent', '(A) milk +Inbox due:2025-08-03' and '(A) 2025-01-02 Buy milk
\* +Work @home due:2025-01-10': projects [], [Inbox] and [Work] (Scenario D)
ScenarioD == JoinWith(<<FilterLines[2], FilterLines[5], FilterLines[1]>>, <<NL>>)

\* the files: at most MaxTasks lines of FilterLines, no line twice, and the
\* file of Scenario D
FilterFiles ==
    UNION {{JoinWith([i \in 1..n |-> FilterLines[f[i]]], <<NL>>) : f \in Picks(n)} :
           n \in 0..MaxTasks}
        \cup {ScenarioD}

SortOptions ==
    {"priority", "duedate", "creation", "completion", "alphabetical",
     "projects", "contexts"}

\* the search box: empty, or "buy"
Queries == {<<>>, <<"b", "u", "y">>}

\* the context menu: all contexts, or "home"
ContextChoices == {<<>>, Tail(wAtHome)}

\* the projects of the side bar
ProjectChoices == {wInboxName, Tail(wWork)}

\* filter states of a saved view state that no setter leaves behind: the
\* archived view with a project selected, the completed view with a project
\* selected, the archived and the completed filter both set
SavedStates ==
    {[InitialFilterState EXCEPT !.archivedFilter = TRUE,
                                !.selectedProject = Tail(wWork)],
     [InitialFilterState EXCEPT !.completedFilter = TRUE,
                                !.selectedProject = wInboxName],
     [InitialFilterState EXCEPT !.archivedFilter = TRUE,
                                !.completedFilter = TRUE]}

InitFilter ==
    /\ content \in FilterFiles
    /\ todoItems = parseTodoTxt(content)
    /\ today = ISO(2025, 1, 15)
    /\ filterState = InitialFilterState
    /\ filtered = applyFilters(parseTodoTxt(content), InitialFilterState,
                               ISO(2025, 1, 15))
    /\ last = NoOp
    /\ calls = NoCalls
    /\ settings = updateFromTodoItems(InitialSettings, parseTodoTxt(content))
    /\ line = <<>>
    /\ item = <<>>
    /\ built = NotYet
    /\ currentDue = <<>>
    /\ recPattern = <<>>
    /\ nextDue = NotYet

\* a setter of the filter manager and its onFilterChange: the view renders
\* the tasks that applyFilters returns
FilterChange(st) ==
    /\ filterState' = st
    /\ filtered' = applyFilters(todoItems, st, today)
    /\ UNCHANGED <<content, todoItems, today, last, line, item, built,
                   currentDue, recPattern, nextDue,
                   calls, settings>>

SetSortOption == \E o \in SortOptions : FilterChange(setSortOption(filterState, o))

SetSearchQuery == \E q \in Queries : FilterChange(setSearchQuery(filterState, q))

SetContextFilter ==
    \E c \in ContextChoices : FilterChange(setContextFilter(filterState, c))

SetProjectFilter ==
    \E p \in ProjectChoices : FilterChange(setProjectFilter(filterState, p))

SetTimeFilter ==
    \E f \in {"today", "upcoming"} : FilterChange(setTimeFilter(filterState, f))

SetSpecialFilter ==
    \E f \in {"archived", "completed"} :
        FilterChange(setSpecialFilter(filterState, f))

\* StateManager.loadState: setState with every field of the saved state
LoadState == \E s \in SavedStates : FilterChange(s)

NextFilter ==
    \/ SetSortOption
    \/ SetSearchQuery
    \/ SetContextFilter
    \/ SetProjectFilter
    \/ SetTimeFilter
    \/ SetSpecialFilter
    \/ LoadState

SpecFilter == InitFilter /\ [][NextFilter]_vars

\* The setters alone, from the state the filter manager is constructed
\* with, on the file ScenarioD: no saved state is loaded.
QuickFilters ==
    {<<"a", "l", "l">>, wInboxName, <<"T", "o", "d", "a", "y">>,
     <<"u", "p", "c", "o", "m", "i", "n", "g">>, wArchived,
     <<"c", "o", "m", "p", "l", "e", "t", "e", "d">>, Tail(wWork), <<>>}

InitSetters ==
    /\ content = ScenarioD
    /\ todoItems = parseTodoTxt(content)
    /\ today = ISO(2025, 1, 15)
    /\ filterState = InitialFilterState
    /\ filtered = applyFilters(parseTodoTxt(content), InitialFilterState,
                               ISO(2025, 1, 15))
    /\ last = NoOp
    /\ calls = NoCalls
    /\ settings = updateFromTodoItems(InitialSettings, parseTodoTxt(content))
    /\ line = <<>>
    /\ item = <<>>
    /\ built = NotYet
    /\ currentDue = <<>>
    /\ recPattern = <<>>
    /\ nextDue = NotYet

\* TodoTxtView.setFilter
SetQuickFilter == \E f \in QuickFilters : FilterChange(setQuickFilter(filterState, f))

\* the project filter is set, also to no project
SetAnyProjectFilter ==
    \E p \in ProjectChoices \cup {<<>>} : FilterChange(setProjectFilter(filterState, p))

\* the time filter is set, also to none
SetAnyTimeFilter ==
    \E f \in {"today", "upcoming", ""} : FilterChange(setTimeFilter(filterState, f))

\* the special filter is set, also to none
SetAnySpecialFilter ==
    \E f \in {"archived", "completed", ""} :
        FilterChange(setSpecialFilter(filterState, f))

NextSetters ==
    \/ SetSortOption
    \/ SetSearchQuery
    \/ SetContextFilter
    \/ SetAnyProjectFilter
    \/ SetAnyTimeFilter
    \/ SetAnySpecialFilter
    \/ SetQuickFilter

SpecSetters == InitSetters /\ [][NextSetters]_vars

-----------------------------------------------------------------------------
(* What the filters are said to show, read off the tasks of the file, the   *)
(* filter state and the tasks the view shows.                               *)

HasProject(t, p) == \E i \in 1..Len(t.projects) : t.projects[i] = p

HasContext(t, c) == \E i \in 1..Len(t.contexts) : t.contexts[i] = c

\* task t of the file is one of the tasks shown
Returned(t) == \E i \in 1..Len(filtered) : filtered[i] = t

\* t belongs to the view chosen: completed, else archived, else active
InCategory(t) ==
    IF filterState.completedFilter THEN t.completed
    ELSE IF filterState.archivedFilter THEN HasProject(t, wArchived)
    ELSE ~t.completed /\ ~HasProject(t, wArchived)

\* t passes the search: the query is in its description, in one of its
\* projects or in one of its contexts, whatever the case of the letters
PassesSearch(t) ==
    LET q == toLowerCase(filterState.searchQuery)
    IN  \/ Trim(q) = <<>>
        \/ Includes(toLowerCase(t.description), q)
        \/ \E i \in 1..Len(t.projects) : Includes(toLowerCase(t.projects[i]), q)
        \/ \E i \in 1..Len(t.contexts) : Includes(toLowerCase(t.contexts[i]), q)

PassesContext(t) ==
    \/ filterState.contextFilter = <<>>
    \/ filterState.contextFilter = wNONE /\ t.contexts = <<>>
    \/ HasContext(t, filterState.contextFilter)

\* project p admits t: t is in p, or p is Inbox and t has no project
Admits(p, t) == HasProject(t, p) \/ (p = wInboxName /\ t.projects = <<>>)

PassesProject(t) ==
    \/ filterState.archivedFilter
    \/ filterState.selectedProject = <<>>
    \/ Admits(filterState.selectedProject, t)

\* the time filter applies: it is set and the view is the active one
TimeFilterOn ==
    /\ filterState.selectedTimeFilter # ""
    /\ ~filterState.archivedFilter
    /\ ~filterState.completedFilter

\* t passes the time filter: it has a due date, today or before for "today",
\* after today for "upcoming"
PassesTime(t) ==
    LET due == GetKey(t.keyValuePairs, <<"d", "u", "e">>)
    IN  \/ ~TimeFilterOn
        \/ /\ due # <<>>
           /\ IF filterState.selectedTimeFilter = "today"
              THEN DateDigits(due) <= DateDigits(today)
              ELSE DateDigits(due) > DateDigits(today)

\* the view shows one category
OneCategory ==
    \A i \in 1..Len(filtered) :
        IF filterState.completedFilter THEN filtered[i].completed
        ELSE IF filterState.archivedFilter THEN HasProject(filtered[i], wArchived)
        ELSE ~filtered[i].completed /\ ~HasProject(filtered[i], wArchived)

\* C14, as stated: the view shows one category (the completed tasks with
\* completedFilter, else the tasks of project Archived with archivedFilter,
\* else the tasks neither completed nor archived), and every task of the
\* file that belongs to the category and passes the search, the context
\* filter and the project filter is shown.
C14_Original ==
    /\ OneCategory
    /\ \A k \in 1..Len(todoItems) :
           (/\ InCategory(todoItems[k])
            /\ PassesSearch(todoItems[k])
            /\ PassesContext(todoItems[k])
            /\ PassesProject(todoItems[k])) => Returned(todoItems[k])

\* C14, amended: the view shows one category, and every task of the file
\* that belongs to the category and passes the time filter, the search, the
\* context filter and the project filter is shown.
C14_CategoryThenStages ==
    /\ OneCategory
    /\ \A k \in 1..Len(todoItems) :
           (/\ InCategory(todoItems[k])
            /\ PassesTime(todoItems[k])
            /\ PassesSearch(todoItems[k])
            /\ PassesContext(todoItems[k])
            /\ PassesProject(todoItems[k])) => Returned(todoItems[k])

\* the file holds a completed task and the archived task '(A) Pay +Archived
\* @home', both filters are set, and the view shows the completed task only
C14_Witness ==
    /\ filterState.completedFilter
    /\ filterState.archivedFilter
    /\ Len(todoItems) = 2
    /\ Len(filtered) = 1
    /\ \E k \in 1..2 : todoItems[k].raw = FilterLines[4]

\* C15: with a project P selected and archivedFilter off the view shows only
\* tasks that are in P, or, for P = Inbox, that have no project; it shows
\* every such task that passes the other filters (with Inbox selected the
\* tasks with no project and with +Inbox are shown, the task with +Work is
\* not); with archivedFilter on, the project selected changes nothing.
C15_ProjectFilter ==
    /\ (filterState.selectedProject # <<>> /\ ~filterState.archivedFilter) =>
          /\ \A i \in 1..Len(filtered) :
                 Admits(filterState.selectedProject, filtered[i])
          /\ \A k \in 1..Len(todoItems) :
                 (/\ InCategory(todoItems[k])
                  /\ PassesTime(todoItems[k])
                  /\ PassesSearch(todoItems[k])
                  /\ PassesContext(todoItems[k])
                  /\ Admits(filterState.selectedProject, todoItems[k]))
                     => Returned(todoItems[k])
    /\ filterState.archivedFilter =>
          filtered = applyFilters(todoItems,
                                  [filterState EXCEPT !.selectedProject = <<>>],
                                  today)

\* Scenario D: Inbox is selected, the file holds a task with no project, one
\* with +Inbox and one with +Work, and the view shows the first two
C15_Witness ==
    /\ filterState.selectedProject = wInboxName
    /\ ~filterState.archivedFilter
    /\ content = ScenarioD
    /\ Len(filtered) = 2
    /\ \E i \in 1..2 : filtered[i].projects = <<>>
    /\ \E i \in 1..2 : filtered[i].projects = <<wInboxName>>

\* C16: filtering the tasks shown again, with the same filter state, gives
\* the same tasks in the same order.
C16_FilteringIsIdempotent == applyFilters(filtered, filterState, today) = filtered

\* the view shows two tasks of the same priority, in the order of the file
C16_Witness ==
    /\ filterState.sortOption = "priority"
    /\ Len(filtered) = 2
    /\ filtered[1].priority = filtered[2].priority
    /\ filtered = todoItems

\* the key of task t for a sort option, as the claim gives it
ClaimKey(t, option) ==
    CASE option = "priority" -> IF t.priority = <<>> THEN <<"Z">> ELSE t.priority
      [] option = "duedate" ->
            IF GetKey(t.keyValuePairs, <<"d", "u", "e">>) = <<>>
            THEN <<"9", "9", "9", "9", "-", "9", "9", "-", "9", "9">>
            ELSE GetKey(t.keyValuePairs, <<"d", "u", "e">>)
      [] option = "creation" ->
            IF t.creationDate = <<>>
            THEN <<"0", "0", "0", "0", "-", "0", "0", "-", "0", "0">>
            ELSE t.creationDate
      [] option = "completion" ->
            IF t.completionDate = <<>>
            THEN <<"0", "0", "0", "0", "-", "0", "0", "-", "0", "0">>
            ELSE t.completionDate
      [] option = "alphabetical" -> t.description
      [] option = "projects" -> IF t.projects = <<>> THEN wZZZ ELSE t.projects[1]
      [] option = "contexts" -> IF t.contexts = <<>> THEN wZZZ ELSE t.contexts[1]

\* the order of the keys of a and b: negative when a comes first; the dates
\* of creation and completion count downwards
KeyOrder(a, b, option) ==
    IF option \in {"creation", "completion"}
    THEN localeCompare(ClaimKey(b, option), ClaimKey(a, option))
    ELSE localeCompare(ClaimKey(a, option), ClaimKey(b, option))

\* the place of task t in the file
PlaceOf(t) == CHOOSE k \in 1..Len(todoItems) : todoItems[k] = t

\* C17: the tasks shown are sorted and the sort is stable: no completed task
\* comes before an incomplete one; two tasks with the same completed flag
\* are in the order of their keys for the sort option (a missing priority
\* counts as Z, a missing due date as 9999-99-99, a missing creation or
\* completion date as 0000-00-00 with the later date first, a missing
\* project or context as zzz); two such tasks with equal keys are in the
\* order they have in the file.
C17_SortedAndStable ==
    \A i, j \in 1..Len(filtered) :
        i < j =>
            /\ ~(filtered[i].completed /\ ~filtered[j].completed)
            /\ filtered[i].completed = filtered[j].completed =>
                  /\ KeyOrder(filtered[i], filtered[j], filterState.sortOption) <= 0
                  /\ KeyOrder(filtered[i], filtered[j], filterState.sortOption) = 0
                        => PlaceOf(filtered[i]) < PlaceOf(filtered[j])

\* sorted by priority, the task with priority A is shown before the task
\* with no priority, which is before it in the file
C17_Witness ==
    /\ filterState.sortOption = "priority"
    /\ Len(filtered) = 2
    /\ filtered[1].priority = <<"A">>
    /\ filtered[2].priority = <<>>
    /\ todoItems = <<filtered[2], filtered[1]>>

-----------------------------------------------------------------------------
(* The view on a todo file: the file starts as at most MaxLines lines of    *)
(* SeedLines, the view loads it, and the check boxes of the tasks complete  *)
(* and uncomplete them.  A handler runs as one step.                        *)

MaxLines == 2

\* a completion appends a line to the file only while it has fewer lines
MaxFileLines == 4

\* '(B) 2025-01-01 Pay rent rec:1m,1 due:2025-01-01' (Scenario B)
ScenarioB ==
    Words(<<wPriB, ISO(2025, 1, 1), wPay, wRent, wRec \o <<"1", "m", ",", "1">>,
            Due(2025, 1, 1)>>)

\* '(A) Buy milk ||note'
NotesSpaced == Words(<<wPriA, wBuy, wMilk, wBarsNote>>)

\* '(A) Buy milk||note'
NotesTight == Words(<<wPriA, wBuy, wInnerBars>>)

\* 'x Buy milk'
DoneNoDate == Words(<<wX, wBuy, wMilk>>)

\* 'x 2025-01-10 Buy pri:C milk'
DonePri == Words(<<wX, ISO(2025, 1, 10), wBuy, wPri \o <<"C">>, wMilk>>)

\* 'Buy rec:1w,mon,mon due:2025-01-06', due on a Monday
WeeklyTwice ==
    Words(<<wBuy,
            wRec \o <<"1", "w", ",">> \o DayNames[2] \o <<",">> \o DayNames[2],
            Due(2025, 1, 6)>>)

SeedLines == <<ScenarioB, NotesSpaced, NotesTight, DoneNoDate, DonePri, WeeklyTwice>>

SeedFiles ==
    UNION {{JoinWith([i \in 1..n |-> SeedLines[f[i]]], <<NL>>) :
               f \in [1..n -> 1..Len(SeedLines)]} : n \in 1..MaxLines}

\* item.projects.includes("Archived")
IsArchived(it) ==
    \E j \in 1..Len(it.projects) :
        it.projects[j] = <<"A", "r", "c", "h", "i", "v", "e", "d">>

Init ==
    /\ content \in SeedFiles
    /\ todoItems = <<>>
    /\ today \in {ISO(2025, 1, 15), ISO(2025, 8, 4)}
    /\ last = NoOp
    /\ calls = NoCalls
    /\ settings = InitialSettings
    /\ filterState = InitialFilterState
    /\ filtered = NotYet
    /\ line = <<>>
    /\ item = <<>>
    /\ built = NotYet
    /\ currentDue = NotYet
    /\ recPattern = NotYet
    /\ nextDue = NotYet

\* TodoTxtView.loadFileContent: the file is read and parsed into todoItems
LoadFileContent ==
    /\ todoItems' = parseTodoTxt(content)
    /\ settings' = updateFromTodoItems(settings, parseTodoTxt(content))
    /\ UNCHANGED <<content, today, last, line, item, built, currentDue,
                   recPattern, nextDue, filterState, filtered, calls>>

\* how a call of completeTask ends, given the sibling line it computes
Outcome(sibling) ==
    IF sibling = Hang THEN "hangs"
    ELSE IF sibling = RangeError THEN "throws"
    ELSE "ok"

\* the check box of task i is checked: TaskService.completeTask
CompleteTask(i) ==
    /\ ~todoItems[i].completed
    /\ ~IsArchived(todoItems[i])
    /\ Len(SplitOn(content, NL)) < MaxFileLines
    /\ content' = completeTask(content, todoItems[i], today)
    /\ last' = [op |-> "completeTask", raw |-> todoItems[i].raw,
                before |-> content,
                outcome |-> Outcome(siblingLine(todoItems[i].raw)),
                oldName |-> <<>>, newName |-> <<>>]
    /\ UNCHANGED <<todoItems, today, line, item, built, currentDue,
                   recPattern, nextDue, filterState, filtered,
                   calls, settings>>

\* the check box of task i is unchecked: TaskService.uncompleteTask
UncompleteTask(i) ==
    /\ todoItems[i].completed
    /\ ~IsArchived(todoItems[i])
    /\ content' = uncompleteTask(content, todoItems[i])
    /\ last' = [op |-> "uncompleteTask", raw |-> todoItems[i].raw,
                before |-> content, outcome |-> "ok",
                oldName |-> <<>>, newName |-> <<>>]
    /\ UNCHANGED <<todoItems, today, line, item, built, currentDue,
                   recPattern, nextDue, filterState, filtered,
                   calls, settings>>

Next ==
    \/ LoadFileContent
    \/ \E i \in 1..Len(todoItems) : CompleteTask(i)
    \/ \E i \in 1..Len(todoItems) : UncompleteTask(i)

Spec == Init /\ [][Next]_vars

-----------------------------------------------------------------------------
(* What completing and uncompleting a task are said to write, read off the  *)
(* file before and after the last handler that ran.                         *)

LinesBefore == TextLinesOf(last.before)

LinesAfter == TextLinesOf(content)

\* the line that the last handler wrote in the place of the task's line
Written == LinesAfter[MinOf({i \in 1..Len(LinesBefore) : LinesBefore[i] = last.raw})]

\* the task of the last handler, and the task its written line parses to
Original == parseTodoLine(last.raw)

Rewritten == parseTodoLine(Written)

Completed == last.op = "completeTask" /\ last.outcome = "ok"

\* the completed task recurs and has a due date
RecurringWithDue ==
    /\ GetKey(Original.keyValuePairs, <<"r", "e", "c">>) # <<>>
    /\ IsDate(GetKey(Original.keyValuePairs, <<"d", "u", "e">>))

\* s is the line raw with nothing but its first due date changed, to a later
\* date
DueAdvanced(raw, s) ==
    LET k == IndexOf(raw, wDue)
    IN  /\ Len(s) = Len(raw)
        /\ Take(s, k + 3) = Take(raw, k + 3)
        /\ Drop(s, k + 13) = Drop(raw, k + 13)
        /\ DateAt(s, k + 4)
        /\ newDate(SubSeq(s, k + 4, k + 13)) > newDate(SubSeq(raw, k + 4, k + 13))

\* C1: completing a recurring task that has a due date replaces its line by
\* the completed form and appends exactly one sibling line, the raw line with
\* only its due date advanced.  Completing
\* '(B) 2025-01-01 Pay rent rec:1m,1 due:2025-01-01' on 2025-01-15 leaves the
\* two lines 'x 2025-01-15 Pay rent rec:1m,1 due:2025-01-01 pri:B' and
\* '(B) 2025-01-01 Pay rent rec:1m,1 due:2025-02-01'.
C1_RecurringCompleteAppendsSibling ==
    (Completed /\ RecurringWithDue) =>
        /\ Len(LinesAfter) = Len(LinesBefore) + 1
        /\ \A i \in 1..Len(LinesBefore) :
               IF LinesBefore[i] = last.raw
               THEN /\ parseTodoLine(LinesAfter[i]).completed
                    /\ parseTodoLine(LinesAfter[i]).completionDate = today
               ELSE LinesAfter[i] = LinesBefore[i]
        /\ DueAdvanced(last.raw, LinesAfter[Len(LinesAfter)])
        /\ (last.before = ScenarioB /\ today = ISO(2025, 1, 15)) =>
               content =
                   Words(<<wX, ISO(2025, 1, 15), wPay, wRent,
                           wRec \o <<"1", "m", ",", "1">>, Due(2025, 1, 1),
                           wPri \o <<"B">>>>)
                   \o <<NL>>
                   \o Words(<<wPriB, ISO(2025, 1, 1), wPay, wRent,
                              wRec \o <<"1", "m", ",", "1">>, Due(2025, 2, 1)>>)

\* the weekly task with its day listed twice was completed: the file holds
\* the completed line twice and no sibling
C1_Witness ==
    /\ Completed
    /\ last.before = WeeklyTwice
    /\ LinesAfter = <<Written, Written>>
    /\ Rewritten.completed

\* the token pri:X of the written line comes before its first "||" if it has
\* one, else it ends the line
PriBeforeNotes(w, x) ==
    LET token == SP \o wPri \o x
    IN  IF Includes(w, BARS)
        THEN /\ Includes(w, token)
             /\ IndexOf(w, token) + Len(token) <= IndexOf(w, BARS)
        ELSE Drop(w, Len(w) - Len(token)) = token

\* C2: completing an active task whose line leads with (X) writes a line
\* that starts with 'x <today> ', has no (X) marker and carries pri:X before
\* its "||" notes if it has notes, else at its end; the written line parses
\* to a completed task with today as completion date, pri = X, and the notes,
\* projects, contexts and creation date of the original.
C2_CompleteMovesPriorityToTag ==
    (Completed /\ Original.priority # <<>>) =>
        /\ StartsWith(Written, <<"x", " ">> \o today \o SP)
        /\ \A t \in {SplitWS(Written)[i] : i \in 1..Len(SplitWS(Written))} :
               ~IsPriorityToken(t)
        /\ PriBeforeNotes(Written, Original.priority)
        /\ Rewritten.completed
        /\ Rewritten.completionDate = today
        /\ GetKey(Rewritten.keyValuePairs, <<"p", "r", "i">>) = Original.priority
        /\ Rewritten.descriptionNotes = Original.descriptionNotes
        /\ Rewritten.projects = Original.projects
        /\ Rewritten.contexts = Original.contexts
        /\ Rewritten.creationDate = Original.creationDate

\* '(A) Buy milk||note' was completed: pri:A ended up in the notes
C2_Witness ==
    /\ Completed
    /\ last.raw = NotesTight
    /\ Rewritten.descriptionNotes = wNote \o SP \o wPri \o <<"A">>

\* the completed line held a key-value pri:X, X a capital letter
HeldPri ==
    LET x == GetKey(Original.keyValuePairs, <<"p", "r", "i">>)
    IN  Len(x) = 1 /\ x[1] \in Upper

\* C3: uncompleting a completed task writes a line that parses as not
\* completed; if the completed line held a key-value pri:X, the written line
\* has no pri: token and starts with '(X) ', so that its priority is X.
C3_UncompleteRestoresPriority ==
    last.op = "uncompleteTask" =>
        /\ ~Rewritten.completed
        /\ HeldPri =>
               LET x == GetKey(Original.keyValuePairs, <<"p", "r", "i">>)
               IN  /\ \A i \in 1..Len(SplitWS(Written)) :
                          ~StartsWith(SplitWS(Written)[i], wPri)
                   /\ StartsWith(Written, <<"(">> \o x \o <<")", " ">>)
                   /\ Rewritten.priority = x


\* 'x Buy milk' was uncompleted: the line written is still completed
C3_Witness ==
    /\ last.op = "uncompleteTask"
    /\ last.raw = DoneNoDate
    /\ Written = DoneNoDate
    /\ Rewritten.completed

-----------------------------------------------------------------------------
(* Archiving and unarchiving: the file starts as at most MaxArchiveLines    *)
(* different lines of ArchiveLines and the view has loaded it.  The edit    *)
(* form of a task is submitted with the project set to Archived, and with   *)
(* an origProj: token deleted from the description or not; the check box    *)
(* of an archived task unarchives it.  A handler runs as one step, on a     *)
(* task of the view that has loaded the file as it is, and the view loads   *)
(* the file again in a step of its own.                                     *)

MaxArchiveLines == 1

\* a handler changes the file only while no line of it is longer
MaxLineLen == 60

\* a task of project Work whose notes hold the text origProj:
NotesNameOrigProj == Words(<<wPay, wWork, BARS \o <<"s", "e", "e">>, wOrigProj>>)

ArchiveLines ==
    << \* (A) Buy +Work @home due:2025-01-10 ||note
       Words(<<wPriA, wBuy, wWork, wAtHome, Due(2025, 1, 10), wBarsNote>>),
       \* Pay rent
       Words(<<wPay, wRent>>),
       \* (B) 2025-01-01 Pay +Archived origProj:Work,Home @shop ||note
       Words(<<wPriB, ISO(2025, 1, 1), wPay, wPlusArchived,
               wOrigProj \o Tail(wWork) \o <<",">> \o Tail(wHome), wShop, wBarsNote>>),
       \* x 2025-01-06 Pay +Archived pri:B
       Words(<<wX, ISO(2025, 1, 6), wPay, wPlusArchived, wPri \o <<"B">> >>),
       \* Pay +Work ||see origProj:
       NotesNameOrigProj >>

\* the ways to pick n different lines of ArchiveLines, in any order
ArchivePicks(n) ==
    {f \in [1..n -> 1..Len(ArchiveLines)] : \A i, j \in 1..n : f[i] = f[j] => i = j}

ArchiveFiles ==
    UNION {{JoinWith([i \in 1..n |-> ArchiveLines[f[i]]], <<NL>>) : f \in ArchivePicks(n)} :
           n \in 1..MaxArchiveLines}

InitArchive ==
    /\ content \in ArchiveFiles
    /\ todoItems = parseTodoTxt(content)
    /\ today = ISO(2025, 1, 15)
    /\ last = NoOp
    /\ calls = NoCalls
    /\ settings = updateFromTodoItems(InitialSettings, parseTodoTxt(content))
    /\ filterState = InitialFilterState
    /\ filtered = NotYet
    /\ line = <<>>
    /\ item = <<>>
    /\ built = NotYet
    /\ currentDue = <<>>
    /\ recPattern = <<>>
    /\ nextDue = NotYet

LinesShort ==
    \A k \in 1..Len(SplitOn(content, NL)) : Len(SplitOn(content, NL)[k]) <= MaxLineLen

\* the view shows the file as it is
ViewLoaded == todoItems = parseTodoTxt(content)

\* the edit form opened on task it, with the project set to Archived, and
\* the origProj: token deleted from the description or not
EditedForm(it, dropOrigProj) ==
    [populateFromItem(it) EXCEPT
        !.selectedProject = wArchived,
        !.taskDescription =
            IF dropOrigProj THEN Trim(RemoveAll("origProj", <<>>, @)) ELSE @]

\* the form is submitted with a line: TaskManager.onTaskUpdate
SubmitEdit(it, newTaskLine) ==
    /\ newTaskLine # <<>>
    /\ content' = updateTask(content, it, newTaskLine)
    /\ last' = [NoOp EXCEPT !.op = "updateTask", !.raw = it.raw,
                            !.before = content, !.outcome = "ok"]
    /\ UNCHANGED <<todoItems, today, line, item, built, currentDue,
                   recPattern, nextDue, filterState, filtered,
                   calls, settings>>

\* task i is archived by an edit: TaskService.updateTask
UpdateTask(i) ==
    \E dropOrigProj \in BOOLEAN :
        SubmitEdit(todoItems[i],
                   buildTaskLine(EditedForm(todoItems[i], dropOrigProj), today))

\* the check box of the archived task i is clicked:
\* TaskService.moveTaskFromArchivedToInbox
MoveFromArchived(i) ==
    /\ IsArchived(todoItems[i])
    /\ content' = moveTaskFromArchivedToInbox(content, todoItems[i])
    /\ last' = [NoOp EXCEPT !.op = "moveTaskFromArchivedToInbox",
                            !.raw = todoItems[i].raw,
                            !.before = content, !.outcome = "ok"]
    /\ UNCHANGED <<todoItems, today, line, item, built, currentDue,
                   recPattern, nextDue, filterState, filtered,
                   calls, settings>>

\* the user acts on a view that has loaded the file, while its lines are
\* short
Ready == LinesShort /\ ViewLoaded

NextArchive ==
    \/ LoadFileContent
    \/ Ready /\ \E i \in 1..Len(todoItems) : UpdateTask(i)
    \/ Ready /\ \E i \in 1..Len(todoItems) : MoveFromArchived(i)

SpecArchive == InitArchive /\ [][NextArchive]_vars

-----------------------------------------------------------------------------
(* What archiving by an edit and unarchiving are said to write.             *)

\* the last handler rewrote a line of the file that it found there
RewroteLine(op) ==
    /\ last.op = op
    /\ \E i \in 1..Len(LinesBefore) : LinesBefore[i] = last.raw

\* the words of a line before its notes
WordsBeforeNotes(ln) == SplitOn(RemoveNotesTail(ln), " ")

\* the line holds the word tok before its notes
CarriesBeforeNotes(ln, tok) ==
    \E k \in 1..Len(WordsBeforeNotes(ln)) : WordsBeforeNotes(ln)[k] = tok

\* C18: when updateTask writes a line that contains +Archived, then (a) if
\* the original task was not archived and had a project, the written line
\* holds, before its notes, origProj: with the original projects other than
\* Archived joined by commas, and (b) if the original task was archived and
\* had an origProj value, the written line holds origProj: with that value.
C18_ArchivedLineCarriesOrigProj ==
    (RewroteLine("updateTask") /\ Includes(Written, wPlusArchived)) =>
        /\ (~IsArchived(Original) /\ NotArchivedProjects(Original.projects) # <<>>) =>
               CarriesBeforeNotes(Written,
                   wOrigProj \o JoinWith(NotArchivedProjects(Original.projects), <<",">>))
        /\ (IsArchived(Original) /\ GetKey(Original.keyValuePairs, wOrigProjKey) # <<>>) =>
               CarriesBeforeNotes(Written,
                   wOrigProj \o GetKey(Original.keyValuePairs, wOrigProjKey))

\* a task of project Work whose notes hold the text origProj: was archived
\* by an edit, and the written line names no original project
C18_Witness ==
    /\ RewroteLine("updateTask")
    /\ last.raw = NotesNameOrigProj
    /\ Written = Words(<<wPay, wPlusArchived, BARS \o <<"s", "e", "e">>, wOrigProj>>)

Unarchived == RewroteLine("moveTaskFromArchivedToInbox")

wPriKey == <<"p", "r", "i">>

\* the written line names the projects of origProj, or Inbox, and neither
\* +Archived nor, before its notes, an origProj: word
WritesTargetProjects ==
    /\ Rewritten.projects = targetProjects(Original)
    /\ ~Includes(Written, wPlusArchived)
    /\ \A k \in 1..Len(WordsBeforeNotes(Written)) :
           ~StartsWith(WordsBeforeNotes(Written)[k], wOrigProj)

\* the written line keeps the contexts, the priority, the creation date and
\* the notes of the task
KeepsFields ==
    /\ Rewritten.contexts = Original.contexts
    /\ Rewritten.priority = Original.priority
    /\ Rewritten.creationDate = Original.creationDate
    /\ Rewritten.descriptionNotes = Original.descriptionNotes

\* the written line keeps the key-values of the task other than origProj
\* and pri
KeepsKeyValues ==
    \A k \in 1..Len(Original.keyValuePairs) :
        Original.keyValuePairs[k].key \notin {wOrigProjKey, wPriKey} =>
            GetKey(Rewritten.keyValuePairs, Original.keyValuePairs[k].key)
                = Original.keyValuePairs[k].value

\* the written line holds a pri: key-value only if the task is completed
PriOnlyOfCompleted ==
    GetKey(Rewritten.keyValuePairs, wPriKey) # <<>> => Original.completed

\* C19: when moveTaskFromArchivedToInbox rewrites the line of a task, the
\* written line names the projects listed in origProj (Inbox when there is
\* no origProj), holds neither +Archived nor an origProj: word, keeps the
\* contexts, key-values, priority, creation date and notes of the task, and
\* holds a pri: key-value only if the task is completed.
C19_UnarchivedLine ==
    Unarchived =>
        /\ WritesTargetProjects
        /\ KeepsFields
        /\ KeepsKeyValues
        /\ PriOnlyOfCompleted

\* a task that is not completed and holds pri:B was unarchived, and the
\* written line holds pri:B
C19_Witness ==
    /\ Unarchived
    /\ ~Original.completed
    /\ Written = Words(<<wPay, wPri \o <<"B">>, <<"+">> \o wInboxName, wPri \o <<"B">> >>)

-----------------------------------------------------------------------------
(* Renaming a project: the file starts as at most MaxRenameLines different  *)
(* lines of RenameLines (a task of project Work, tasks of projects whose    *)
(* names start with Work, an archived task that came from Work) and the     *)
(* view has loaded it.  The project modal renames a project of             *)
(* RenameNames, also to its own name (the modal submits when only the icon  *)
(* changed); the lists of pinned and known projects are settings outside    *)
(* the file.                                                                *)

MaxRenameLines == 2

wWorkDashX == wWork \o <<"-", "x">>

RenameLines ==
    << \* Buy +Work @home
       Words(<<wBuy, wWork, wAtHome>>),
       \* Pay +Workshop
       Words(<<wPay, wWork \o <<"s", "h", "o", "p">> >>),
       \* Pay +Work-x
       Words(<<wPay, wWorkDashX>>),
       \* Buy +Home +Work
       Words(<<wBuy, wHome, wWork>>),
       \* Pay +Archived origProj:Work
       Words(<<wPay, wPlusArchived, wOrigProj \o Tail(wWork)>>),
       \* Pay rent
       Words(<<wPay, wRent>>) >>

RenameNames == {Tail(wWork), Tail(wHome)}

\* the ways to pick n different lines of RenameLines, in any order
RenamePicks(n) ==
    {f \in [1..n -> 1..Len(RenameLines)] : \A i, j \in 1..n : f[i] = f[j] => i = j}

RenameFiles ==
    UNION {{JoinWith([i \in 1..n |-> RenameLines[f[i]]], <<NL>>) : f \in RenamePicks(n)} :
           n \in 1..MaxRenameLines}

InitRename ==
    /\ content \in RenameFiles
    /\ todoItems = parseTodoTxt(content)
    /\ today = ISO(2025, 1, 15)
    /\ filterState = InitialFilterState
    /\ filtered = applyFilters(parseTodoTxt(content), InitialFilterState,
                               ISO(2025, 1, 15))
    /\ last = NoOp
    /\ calls = NoCalls
    /\ settings = updateFromTodoItems(InitialSettings, parseTodoTxt(content))
    /\ line = <<>>
    /\ item = <<>>
    /\ built = NotYet
    /\ currentDue = <<>>
    /\ recPattern = <<>>
    /\ nextDue = NotYet

\* onProjectUpdate: the filter follows the project when it is the selected
\* one
FilterAfterRename(st, oldName, newName) ==
    IF st.selectedProject = oldName THEN setProjectFilter(st, newName) ELSE st

\* the project modal is submitted: projectManager.onProjectUpdate, that is
\* ProjectService.updateProjectName (the file, then the sets of the project
\* manager), the filter, and a refresh of the view
UpdateProjectName(oldName, newName) ==
    /\ content' = updateProjectName(content, oldName, newName)
    /\ settings' = IF oldName = newName THEN settings
                   ELSE renameProject(settings, oldName, newName)
    /\ last' = [NoOp EXCEPT !.op = "updateProjectName",
                            !.oldName = oldName, !.newName = newName,
                            !.before = content,
                            !.outcome = IF oldName = newName THEN "not written"
                                        ELSE "written"]
    /\ filterState' = FilterAfterRename(filterState, oldName, newName)
    /\ filtered' = applyFilters(todoItems,
                                FilterAfterRename(filterState, oldName, newName),
                                today)
    /\ UNCHANGED <<todoItems, today, line, item, built, currentDue,
                   recPattern, nextDue, calls>>

NextRename ==
    \/ LoadFileContent
    \/ SetProjectFilter
    \/ \E oldName, newName \in RenameNames : UpdateProjectName(oldName, newName)

SpecRename == InitRename /\ [][NextRename]_vars

-----------------------------------------------------------------------------
(* What renaming a project is said to write.                                *)

Renamed == last.op = "updateProjectName"

\* the words of line i of the file before and after the last handler
WordsBefore(i) == SplitOn(LinesBefore[i], " ")

WordsAfter(i) == SplitOn(LinesAfter[i], " ")

\* no task of the file has project old, and every task that had it has
\* project new
ProjectMoved ==
    /\ Len(LinesAfter) = Len(LinesBefore)
    /\ \A i \in 1..Len(LinesAfter) :
          /\ ~HasProject(parseTodoLine(LinesAfter[i]), last.oldName)
          /\ HasProject(parseTodoLine(LinesBefore[i]), last.oldName) =>
                HasProject(parseTodoLine(LinesAfter[i]), last.newName)

\* every word of the file is the word it was, but +old, which is +new
OnlyProjectWordChanged ==
    /\ Len(LinesAfter) = Len(LinesBefore)
    /\ \A i \in 1..Len(LinesAfter) :
          /\ Len(WordsAfter(i)) = Len(WordsBefore(i))
          /\ \A k \in 1..Len(WordsAfter(i)) :
                WordsAfter(i)[k] =
                    IF WordsBefore(i)[k] = <<"+">> \o last.oldName
                    THEN <<"+">> \o last.newName
                    ELSE WordsBefore(i)[k]

\* C20: updateProjectName(old, new) with old # new leaves no task with
\* project old, gives project new to every task that had project old, and
\* changes no word of the file but +old, which becomes +new (+oldX and
\* +old-x stay as they are); with old = new the file is not written.
C20_RenameChangesOnlyTheProject ==
    Renamed =>
        IF last.oldName = last.newName
        THEN last.outcome = "not written" /\ content = last.before
        ELSE ProjectMoved /\ OnlyProjectWordChanged

\* Work was renamed to Home in a file with the line Pay +Work-x, and the
\* line is now Pay +Home-x
C20_Witness ==
    /\ Renamed
    /\ last.oldName = Tail(wWork)
    /\ last.newName = Tail(wHome)
    /\ \E i \in 1..Len(LinesBefore) :
          /\ LinesBefore[i] = Words(<<wPay, wWorkDashX>>)
          /\ LinesAfter[i] = Words(<<wPay, wHome \o <<"-", "x">> >>)

-----------------------------------------------------------------------------
(* Handlers on a view that is behind the file: the file starts as at most   *)
(* MaxStaleLines different lines of StaleLines and the view has loaded it.  *)
(* The check box, the edit form and its delete button act on the tasks of   *)
(* the view before it loads the file again, so a handler can run on a task  *)
(* whose line the file no longer holds.                                     *)

MaxStaleLines == 2

\* 'Buy rec:1w due:2025-01-06'
WeeklySimple == Words(<<wBuy, wRec \o <<"1", "w">>, Due(2025, 1, 6)>>)

\* 'Pay +Archived origProj:Work'
ArchivedFromWork == Words(<<wPay, wPlusArchived, wOrigProj \o Tail(wWork)>>)

StaleLines == <<WeeklySimple, NotesSpaced, DonePri, ArchivedFromWork>>

\* the ways to pick n different lines of StaleLines, in any order
StalePicks(n) ==
    {f \in [1..n -> 1..Len(StaleLines)] : \A i, j \in 1..n : f[i] = f[j] => i = j}

StaleFiles ==
    UNION {{JoinWith([i \in 1..n |-> StaleLines[f[i]]], <<NL>>) : f \in StalePicks(n)} :
           n \in 1..MaxStaleLines}

InitStale ==
    /\ content \in StaleFiles
    /\ todoItems = parseTodoTxt(content)
    /\ today = ISO(2025, 1, 15)
    /\ last = NoOp
    /\ calls = NoCalls
    /\ settings = updateFromTodoItems(InitialSettings, parseTodoTxt(content))
    /\ filterState = InitialFilterState
    /\ filtered = NotYet
    /\ line = <<>>
    /\ item = <<>>
    /\ built = NotYet
    /\ currentDue = <<>>
    /\ recPattern = <<>>
    /\ nextDue = NotYet

\* the delete button of the edit form of task i: TaskService.deleteTask
DeleteTask(i) ==
    /\ content' = deleteTask(content, todoItems[i])
    /\ last' = [NoOp EXCEPT !.op = "deleteTask", !.raw = todoItems[i].raw,
                            !.before = content, !.outcome = "ok"]
    /\ UNCHANGED <<todoItems, today, line, item, built, currentDue,
                   recPattern, nextDue, filterState, filtered, calls, settings>>

NextStale ==
    \/ \E i \in 1..Len(todoItems) : CompleteTask(i)
    \/ \E i \in 1..Len(todoItems) : UncompleteTask(i)
    \/ \E i \in 1..Len(todoItems) : UpdateTask(i)
    \/ \E i \in 1..Len(todoItems) : MoveFromArchived(i)
    \/ \E i \in 1..Len(todoItems) : DeleteTask(i)

SpecStale == InitStale /\ [][NextStale]_vars

-----------------------------------------------------------------------------
(* The services as their awaits run them.  A method of TaskService or of    *)
(* ProjectService makes its FileService calls in order; a FileService call  *)
(* reads the whole file (await vault.read), transforms the text and writes  *)
(* the whole file (await vault.modify), and the write can fail.  Up to      *)
(* MaxCalls methods are called on the tasks of the view, their reads and    *)
(* writes interleave, and the view loads the file (on the modify event of   *)
(* the vault) at any time.  The file starts as at most MaxAsyncLines        *)
(* different lines of AsyncLines.                                           *)

MaxCalls == 2

MaxAsyncLines == 1

\* 'Buy +Work @home'
BuyAtWork == Words(<<wBuy, wWork, wAtHome>>)

AsyncLines == <<WeeklySimple, NotesSpaced, DonePri, ArchivedFromWork, BuyAtWork>>

\* the ways to pick n different lines of AsyncLines, in any order
AsyncPicks(n) ==
    {f \in [1..n -> 1..Len(AsyncLines)] : \A i, j \in 1..n : f[i] = f[j] => i = j}

AsyncFiles ==
    UNION {{JoinWith([i \in 1..n |-> AsyncLines[f[i]]], <<NL>>) : f \in AsyncPicks(n)} :
           n \in 1..MaxAsyncLines}

\* the project Work is known, pinned and has an icon
WorkKnown ==
    [allKnownProjects |-> {Tail(wWork)}, pinnedProjects |-> {Tail(wWork)},
     projectIcons |-> {Tail(wWork)}]

InitAsync ==
    /\ content \in AsyncFiles
    /\ todoItems = parseTodoTxt(content)
    /\ today = ISO(2025, 1, 15)
    /\ last = NoOp
    /\ calls = NoCalls
    /\ settings = WorkKnown
    /\ filterState = InitialFilterState
    /\ filtered = NotYet
    /\ line = <<>>
    /\ item = <<>>
    /\ built = NotYet
    /\ currentDue = <<>>
    /\ recPattern = <<>>
    /\ nextDue = NotYet

\* a call of FileService: method(file, a, b)
FileStep(method, a, b) == [method |-> method, a |-> a, b |-> b]

\* the text that a call of FileService writes, given the text it has read
ApplyStep(step, text) ==
    CASE step.method = "appendTaskLine" -> appendTaskLine(text, step.a)
      [] step.method = "updateTaskLine" -> updateTaskLine(text, step.a, step.b)
      [] step.method = "deleteTaskLine" -> deleteTaskLine(text, step.a)
      [] step.method = "replaceProjectName" -> replaceProjectName(text, step.a, step.b)
      [] step.method = "removeProjectFromTasks" -> removeProjectFromTasks(text, step.a)

\* TaskService.completeTask: appendTaskLine for the sibling, if there is
\* one, and then updateTaskLine
StepsOfComplete(raw, day, sibling) ==
    (IF sibling = <<>> THEN <<>>
     ELSE <<FileStep("appendTaskLine", sibling, <<>>)>>)
        \o <<FileStep("updateTaskLine", raw, completedLine(raw, day))>>

\* the number of writes to the file so far
RECURSIVE WritesOf(_)
WritesOf(cs) == IF cs = <<>> THEN 0 ELSE Len(cs[1].log) + WritesOf(Tail(cs))

\* a method is called: it has read and written nothing yet
Invoke(op, raw, steps, outcome) ==
    /\ Len(calls) < MaxCalls
    /\ calls' = Append(calls,
                       [op |-> op, raw |-> raw, steps |-> steps, buf |-> <<>>,
                        readAt |-> 0, began |-> content, log |-> <<>>,
                        outcome |-> IF outcome = "ok" /\ steps # <<>> THEN "running"
                                    ELSE outcome])
    /\ UNCHANGED <<content, todoItems, today, last, line, item, built, currentDue,
                   recPattern, nextDue, filterState, filtered, settings>>

\* the check box of task i: moveTaskFromArchivedToInbox, uncompleteTask or
\* completeTask
CallCheckbox(i) ==
    IF IsArchived(todoItems[i])
    THEN Invoke("moveTaskFromArchivedToInbox", todoItems[i].raw,
                <<FileStep("updateTaskLine", todoItems[i].raw,
                           unarchivedLine(todoItems[i]))>>, "ok")
    ELSE IF todoItems[i].completed
    THEN Invoke("uncompleteTask", todoItems[i].raw,
                <<FileStep("updateTaskLine", todoItems[i].raw,
                           uncompletedLine(todoItems[i].raw))>>, "ok")
    ELSE Invoke("completeTask", todoItems[i].raw,
                IF siblingLine(todoItems[i].raw) \in {Hang, RangeError} THEN <<>>
                ELSE StepsOfComplete(todoItems[i].raw, today,
                                     siblingLine(todoItems[i].raw)),
                Outcome(siblingLine(todoItems[i].raw)))

\* the edit form of task i is submitted with the project set to Archived:
\* updateTask
CallUpdate(i) ==
    Invoke("updateTask", todoItems[i].raw,
           <<FileStep("updateTaskLine", todoItems[i].raw,
                      updatedLine(todoItems[i],
                                  buildTaskLine(EditedForm(todoItems[i], FALSE),
                                                today)))>>,
           "ok")

\* the delete button of the edit form of task i: deleteTask
CallDelete(i) ==
    Invoke("deleteTask", todoItems[i].raw,
           <<FileStep("deleteTaskLine", todoItems[i].raw, <<>>)>>, "ok")

\* the add form is submitted with the line Pay rent: addNewTask
CallAdd ==
    Invoke("addNewTask", <<>>,
           <<FileStep("appendTaskLine", Words(<<wPay, wRent>>), <<>>)>>, "ok")

\* ProjectService.updateProjectName
CallRename(oldName, newName) ==
    Invoke("updateProjectName", <<>>,
           IF oldName = newName THEN <<>>
           ELSE <<FileStep("replaceProjectName", oldName, newName)>>,
           "ok")

\* ProjectService.deleteProject
CallDeleteProject(projectName) ==
    Invoke("deleteProject", <<>>,
           <<FileStep("removeProjectFromTasks", projectName, <<>>)>>, "ok")

\* await this.readFile(file) of call k
Read(k) ==
    /\ calls[k].outcome = "running"
    /\ calls[k].buf = <<>>
    /\ calls' = [calls EXCEPT ![k].buf = <<content>>,
                              ![k].readAt = WritesOf(calls)]
    /\ UNCHANGED <<content, todoItems, today, last, line, item, built, currentDue,
                   recPattern, nextDue, filterState, filtered, settings>>

\* the lists of projects after the FileService call of a ProjectService
\* method: ProjectManager.renameProject, ProjectManager.deleteProject
SettingsAfter(step, st) ==
    IF step.method = "replaceProjectName" THEN renameProject(st, step.a, step.b)
    ELSE IF step.method = "removeProjectFromTasks" THEN deleteProject(st, step.a)
    ELSE st

\* what call k is after its FileService call has written text
AfterWrite(c, text, over, at) ==
    [c EXCEPT !.steps = Tail(@),
              !.buf = <<>>,
              !.log = Append(@, [step |-> Head(c.steps), read |-> c.buf[1],
                                 wrote |-> text, over |-> over,
                                 readAt |-> c.readAt, at |-> at]),
              !.outcome = IF Len(c.steps) = 1 THEN "ok" ELSE "running"]

\* Write that computes the text from the file as it is when it writes
WriteFresh(k) ==
    /\ calls[k].outcome = "running"
    /\ calls[k].buf # <<>>
    /\ content' = ApplyStep(Head(calls[k].steps), content)
    /\ calls' = [calls EXCEPT ![k] =
                    AfterWrite(calls[k],
                               ApplyStep(Head(calls[k].steps), content),
                               content, WritesOf(calls) + 1)]
    /\ settings' = SettingsAfter(Head(calls[k].steps), settings)
    /\ last' = [NoOp EXCEPT !.op = calls[k].op, !.raw = calls[k].raw,
                            !.before = content, !.outcome = "ok"]
    /\ UNCHANGED <<todoItems, today, line, item, built, currentDue,
                   recPattern, nextDue, filterState, filtered>>

\* await this.writeFile(file, ...) of call k, with the text computed from
\* the text that the call has read
Write(k) ==
    /\ calls[k].outcome = "running"
    /\ calls[k].buf # <<>>
    /\ content' = ApplyStep(Head(calls[k].steps), calls[k].buf[1])
    /\ calls' = [calls EXCEPT ![k] =
                    AfterWrite(calls[k],
                               ApplyStep(Head(calls[k].steps), calls[k].buf[1]),
                               content, WritesOf(calls) + 1)]
    /\ settings' = SettingsAfter(Head(calls[k].steps), settings)
    /\ last' = [NoOp EXCEPT !.op = calls[k].op, !.raw = calls[k].raw,
                            !.before = content, !.outcome = "ok"]
    /\ UNCHANGED <<todoItems, today, line, item, built, currentDue,
                   recPattern, nextDue, filterState, filtered>>

\* vault.modify of call k rejects: the method throws to its caller
WriteFails(k) ==
    /\ calls[k].outcome = "running"
    /\ calls[k].buf # <<>>
    /\ calls' = [calls EXCEPT ![k].outcome = "throws", ![k].buf = <<>>]
    /\ UNCHANGED <<content, todoItems, today, last, line, item, built, currentDue,
                   recPattern, nextDue, filterState, filtered, settings>>

NextAsync ==
    \/ LoadFileContent
    \/ \E i \in 1..Len(todoItems) : CallCheckbox(i)
    \/ \E i \in 1..Len(todoItems) : CallUpdate(i)
    \/ \E i \in 1..Len(todoItems) : CallDelete(i)
    \/ CallAdd
    \/ \E oldName, newName \in RenameNames : CallRename(oldName, newName)
    \/ CallDeleteProject(Tail(wWork))
    \/ \E k \in 1..Len(calls) : Read(k)
    \/ \E k \in 1..Len(calls) : Write(k)
    \/ \E k \in 1..Len(calls) : WriteFails(k)

SpecAsync == InitAsync /\ [][NextAsync]_vars

\* The race of the calls alone: check boxes and the add form, no write
\* fails and the view does not load the file in between.
RaceLines == <<NotesSpaced, DonePri>>

RacePicks(n) ==
    {f \in [1..n -> 1..Len(RaceLines)] : \A i, j \in 1..n : f[i] = f[j] => i = j}

RaceFiles ==
    UNION {{JoinWith([i \in 1..n |-> RaceLines[f[i]]], <<NL>>) : f \in RacePicks(n)} :
           n \in 1..MaxAsyncLines}

InitRace ==
    /\ content \in RaceFiles
    /\ todoItems = parseTodoTxt(content)
    /\ today = ISO(2025, 1, 15)
    /\ last = NoOp
    /\ calls = NoCalls
    /\ settings = InitialSettings
    /\ filterState = InitialFilterState
    /\ filtered = NotYet
    /\ line = <<>>
    /\ item = <<>>
    /\ built = NotYet
    /\ currentDue = <<>>
    /\ recPattern = <<>>
    /\ nextDue = NotYet

NextRace ==
    \/ \E i \in 1..Len(todoItems) : CallCheckbox(i)
    \/ CallAdd
    \/ \E k \in 1..Len(calls) : Read(k)
    \/ \E k \in 1..Len(calls) : Write(k)

SpecRace == InitRace /\ [][NextRace]_vars

-----------------------------------------------------------------------------
(* What a handler is said to do with a task whose line is gone.             *)

MutationOps ==
    {"completeTask", "uncompleteTask", "updateTask",
     "moveTaskFromArchivedToInbox", "deleteTask"}

\* the last handler ran on a task whose raw is no line of the file
StaleCall ==
    /\ last.op \in MutationOps
    /\ \A i \in 1..Len(LinesBefore) : Trim(LinesBefore[i]) # Trim(last.raw)

\* C21: when a handler (complete, uncomplete, update, unarchive, delete)
\* runs on a task whose raw matches no line of the file, the file is
\* afterwards what it was before and no error is raised, also when the task
\* is a recurring task that is completed.
C21_StaleCallChangesNothing ==
    StaleCall => (content = last.before /\ last.outcome = "ok")

\* the recurring task Buy rec:1w due:2025-01-06 was completed when its line
\* was gone from the file, and the file has a line more than before
C21_Witness ==
    /\ StaleCall
    /\ last.op = "completeTask"
    /\ last.raw = WeeklySimple
    /\ Len(LinesAfter) = Len(LinesBefore) + 1

-----------------------------------------------------------------------------
(* What the file is said to hold while and after the services run.          *)

\* text has the line l
HasLine(text, l) ==
    \E i \in 1..Len(SplitOn(text, NL)) : SplitOn(text, NL)[i] = l

\* call k completes a recurring task whose sibling is computed, nothing
\* else has been called, and no write of it has failed
CompletesRecurring(k) ==
    /\ Len(calls) = 1
    /\ calls[k].op = "completeTask"
    /\ calls[k].outcome \in {"running", "ok"}
    /\ siblingLine(calls[k].raw) \notin {<<>>, Hang, RangeError}

\* the sibling is appended before the line of the task is rewritten
SiblingFirst(k) ==
    /\ Len(calls[k].log) >= 1 => calls[k].log[1].step.method = "appendTaskLine"
    /\ Len(calls[k].log) >= 2 => calls[k].log[2].step.method = "updateTaskLine"

\* the file holds the sibling and the completed line, or neither
BothOrNeither(k) ==
    HasLine(content, siblingLine(calls[k].raw))
        <=> HasLine(content, completedLine(calls[k].raw, today))

\* C22: while and after completeTask completes a recurring task, the
\* sibling is appended before the line of the task is rewritten, and the
\* file never holds one of the two effects without the other: the sibling
\* without the completed line, or the completed line without the sibling.
C22_CompletionIsAtomic ==
    \A k \in 1..Len(calls) :
        CompletesRecurring(k) => (SiblingFirst(k) /\ BothOrNeither(k))

\* completeTask of Buy rec:1w due:2025-01-06 has appended the sibling and
\* not yet rewritten the line: the file holds the task twice, not
\* completed, and the view has loaded it
C22_Witness ==
    /\ Len(calls) = 1
    /\ todoItems = parseTodoTxt(content)
    /\ CompletesRecurring(1)
    /\ calls[1].raw = WeeklySimple
    /\ Len(calls[1].log) = 1
    /\ HasLine(content, WeeklySimple)
    /\ HasLine(content, siblingLine(WeeklySimple))

\* the write ej of call j and the write ek of call k raced: both calls read
\* the file that ej wrote over, then j wrote, then k wrote
Raced(j, ej, k, ek) ==
    /\ j # k
    /\ ej.readAt = ej.at - 1
    /\ ek.readAt = ej.at - 1
    /\ ek.at = ej.at + 1

\* C23: when two calls on the file have both read it before either wrote,
\* the second write is the second call's change made to the file as it
\* was before the first write, so the first call's change is not in it,
\* and that is what the file holds until the next write.
C23_LastWriterWins ==
    \A j, k \in 1..Len(calls) :
        \A a \in 1..Len(calls[j].log), b \in 1..Len(calls[k].log) :
            Raced(j, calls[j].log[a], k, calls[k].log[b]) =>
                /\ calls[k].log[b].wrote =
                       ApplyStep(calls[k].log[b].step, calls[j].log[a].over)
                /\ WritesOf(calls) = calls[k].log[b].at =>
                       content = calls[k].log[b].wrote

\* (A) Buy milk ||note was completed and Pay rent was added, both calls
\* read the file before either wrote, and the file holds the task not
\* completed and Pay rent
C23_Witness ==
    /\ Len(calls) = 2
    /\ calls[1].op = "completeTask"
    /\ calls[1].raw = NotesSpaced
    /\ calls[2].op = "addNewTask"
    /\ calls[1].outcome = "ok"
    /\ calls[2].outcome = "ok"
    /\ Raced(1, calls[1].log[1], 2, calls[2].log[1])
    /\ content = NotesSpaced \o <<NL>> \o Words(<<wPay, wRent>>)

\* a write of call k has failed, and nothing else has been called
WriteFailed(k) ==
    /\ Len(calls) = 1
    /\ calls[k].outcome = "throws"

\* C24: when a write to the file fails during a call (complete, uncomplete,
\* update, unarchive, delete, add, rename project, delete project), the
\* file is what it was when the call began, and the call throws.
C24_FailedWriteLeavesFile ==
    \A k \in 1..Len(calls) : WriteFailed(k) => content = calls[k].began

\* completeTask of Buy rec:1w due:2025-01-06 has appended the sibling, the
\* write of the completed line has failed, and the file holds the sibling
C24_Witness ==
    /\ WriteFailed(1)
    /\ calls[1].op = "completeTask"
    /\ calls[1].raw = WeeklySimple
    /\ content = WeeklySimple \o <<NL>> \o siblingLine(WeeklySimple)

-----------------------------------------------------------------------------
(* What the setters of the filter manager are said to keep.                 *)

\* the number of the four exclusive filters that are on
ActiveFilters ==
    (IF filterState.selectedProject # <<>> THEN 1 ELSE 0)
        + (IF filterState.selectedTimeFilter # "" THEN 1 ELSE 0)
        + (IF filterState.archivedFilter THEN 1 ELSE 0)
        + (IF filterState.completedFilter THEN 1 ELSE 0)

\* C25: after any sequence of setProjectFilter, setTimeFilter,
\* setSpecialFilter, setQuickFilter, setSortOption, setSearchQuery and
\* setContextFilter from the initial state, at most one of these holds: a
\* project is selected, a time filter is selected, archivedFilter is true,
\* completedFilter is true.
C25_AtMostOneFilterActive == ActiveFilters <= 1

\* the completed filter is on after the project filter was, with a search
\* query and the sort option that setSpecialFilter sets
C25_Witness ==
    /\ filterState.completedFilter
    /\ filterState.sortOption = "completion"
    /\ filterState.searchQuery # <<>>
    /\ ActiveFilters = 1

-----------------------------------------------------------------------------
(* What archiving and unarchiving are said to leave of the completion.      *)

\* the written line is completed as the task was, on the same date
KeepsCompletion ==
    /\ Rewritten.completed = Original.completed
    /\ Rewritten.completionDate = Original.completionDate

\* updateTask wrote a line with +Archived in the place of the task's line
ArchivedByEdit == RewroteLine("updateTask") /\ Includes(Written, wPlusArchived)

\* the part of C26 about archiving
ArchivingKeepsCompletion == ArchivedByEdit => KeepsCompletion

\* C26: archiving a task (updateTask with +Archived) and unarchiving it
\* (moveTaskFromArchivedToInbox) never change the task's completed flag or
\* completionDate: a task that is completed and archived is still completed,
\* with the same completion date, after it is unarchived.
C26_ArchivedIsOrthogonalToCompleted == (ArchivedByEdit \/ Unarchived) => KeepsCompletion

\* the completed archived task `x 2025-01-06 Pay +Archived pri:B` was
\* unarchived and the written line is of a task that is not completed
C26_Witness ==
    /\ Unarchived
    /\ Original.completed
    /\ Original.completionDate = ISO(2025, 1, 6)
    /\ Written = Words(<<wPay, wPri \o <<"B">>, <<"+">> \o wInboxName>>)
    /\ ~Rewritten.completed
    /\ Rewritten.completionDate = <<>>

-----------------------------------------------------------------------------
(* Completing a task and uncompleting it again: the file is one active      *)
(* line that does not recur, kept in line; the view loads the file and the  *)
(* check box of the task is checked and unchecked.                          *)

\* the bodies of the lines: 'Buy milk', 'Buy +Work @home due:2025-01-10',
\* 'Buy t:10:30  milk' (two spaces)
RoundTripBodies ==
    {Words(<<wBuy, wMilk>>),
     Words(<<wBuy, wWork, wAtHome, Due(2025, 1, 10)>>),
     Words(<<wBuy, wTime, <<>>, wMilk>>)}

\* the notes of the lines: none, ' ||note', '||note'
RoundTripNotes == {<<>>, SP \o wBarsNote, wBarsNote}

\* a line with or without priority, creation date and notes
RoundTripLine(pri, created, body, notes) ==
    (IF pri THEN wPriA \o SP ELSE <<>>)
        \o (IF created THEN ISO(2025, 1, 1) \o SP ELSE <<>>)
        \o body \o notes

\* 'Pay pri:B +Inbox', as moveTaskFromArchivedToInbox writes it for the
\* completed task 'x 2025-01-06 Pay +Archived pri:B'
UnarchivedPri == Words(<<wPay, wPri \o <<"B">>, <<"+">> \o wInboxName>>)

\* 'Buy milk ||see pri:A'
NotesNamePri == Words(<<wBuy, wMilk, BARS \o <<"s", "e", "e">>, wPri \o <<"A">> >>)

RoundTripLines ==
    {RoundTripLine(pri, created, body, notes) :
        pri \in BOOLEAN, created \in BOOLEAN,
        body \in RoundTripBodies, notes \in RoundTripNotes}
    \cup {UnarchivedPri, NotesNamePri}

InitRoundTrip ==
    /\ line \in RoundTripLines
    /\ content = line
    /\ todoItems = <<>>
    /\ today \in {ISO(2025, 1, 15), ISO(2025, 8, 4)}
    /\ last = NoOp
    /\ calls = NoCalls
    /\ settings = InitialSettings
    /\ filterState = InitialFilterState
    /\ filtered = NotYet
    /\ item = <<>>
    /\ built = NotYet
    /\ currentDue = NotYet
    /\ recPattern = NotYet
    /\ nextDue = NotYet

SpecRoundTrip == InitRoundTrip /\ [][Next]_vars

\* s.trim().split(/\s+/).join(' ')
NormalizeSpace(s) == JoinWith(SplitWS(Trim(s)), SP)

\* uncompleteTask has rewritten the line that completeTask wrote for line
RoundTrip ==
    /\ RewroteLine("uncompleteTask")
    /\ last.raw = completedLine(line, today)
    /\ ~parseTodoLine(line).completed

\* the written line is equal to line up to white space
RestoresLine == NormalizeSpace(Written) = NormalizeSpace(line)

\* the written line parses to the fields of line
RestoresFields ==
    /\ Rewritten.priority = parseTodoLine(line).priority
    /\ Rewritten.creationDate = parseTodoLine(line).creationDate
    /\ Rewritten.projects = parseTodoLine(line).projects
    /\ Rewritten.contexts = parseTodoLine(line).contexts
    /\ Rewritten.keyValuePairs = parseTodoLine(line).keyValuePairs
    /\ Rewritten.descriptionNotes = parseTodoLine(line).descriptionNotes

\* the written line holds no pri: token
NoPriRemains == ~Includes(Written, wPri)

\* line holds no pri: text
NoPriText == ~Includes(line, wPri)

\* C27: for every active line of a task that does not recur (with or
\* without priority, creation date, ||notes), uncompleteTask applied to the
\* line written by completeTask writes a line equal to the original up to
\* white space, so the parsed priority, creationDate, projects, contexts,
\* keyValuePairs and notes are restored and no pri: token remains.
C27_CompleteThenUncompleteIsIdentity ==
    RoundTrip => (RestoresLine /\ RestoresFields /\ NoPriRemains)

\* the same for the lines that hold no pri: text
RoundTripWithoutPriText ==
    (RoundTrip /\ NoPriText) => (RestoresLine /\ RestoresFields /\ NoPriRemains)

\* 'Buy milk ||see pri:A' was completed and uncompleted again, and the line
\* written is '(A) Buy milk ||see'
C27_Witness ==
    /\ RoundTrip
    /\ line = NotesNamePri
    /\ Written = Words(<<wPriA, wBuy, wMilk, BARS \o <<"s", "e", "e">> >>)
    /\ Rewritten.priority = <<"A">>
    /\ parseTodoLine(line).priority = <<>>

-----------------------------------------------------------------------------
(* What the sibling of a completed recurring task is said to be.            *)

\* the pattern is one that the calculator understands
IsRecognised(p) ==
    p \in SimplePatterns \cup WeeklyPatterns \cup MonthlyPatterns \cup YearlyPatterns

\* the line 'Buy rec:<recPattern> due:<currentDue>'
RecurringLine == Words(<<wBuy, wRec \o recPattern, wDue \o currentDue>>)

\* the calculator returned a date later than the due date
DueMovesOn ==
    /\ nextDue \notin {Hang, RangeError}
    /\ newDate(nextDue) > newDate(currentDue)

\* the sibling line that completeTask computes for RecurringLine is a line,
\* holds the date the calculator returned and is not RecurringLine
SiblingDiffers ==
    /\ siblingLine(RecurringLine) \notin {Hang, RangeError}
    /\ siblingLine(RecurringLine) = Words(<<wBuy, wRec \o recPattern, wDue \o nextDue>>)
    /\ siblingLine(RecurringLine) # RecurringLine

\* C28: for every recurring task with a due date and a recognised pattern
\* with N >= 1 (simple, weekly on days, monthly on dates, yearly), the
\* sibling that completeTask appends has a due date strictly later than the
\* due date of the completed task, and the sibling line is never equal to
\* the line being completed.
C28_RecurrenceMakesProgress ==
    (nextDue # NotYet /\ IsRecognised(recPattern)) => (DueMovesOn /\ SiblingDiffers)

\* the same for the simple patterns
SimpleMakesProgress ==
    (nextDue # NotYet /\ recPattern \in SimplePatterns) => (DueMovesOn /\ SiblingDiffers)

\* the same for the weekly patterns with days
WeeklyMakesProgress ==
    (nextDue # NotYet /\ recPattern \in WeeklyPatterns) => (DueMovesOn /\ SiblingDiffers)

\* the same for the monthly patterns with a day of the month
MonthlyMakesProgress ==
    (nextDue # NotYet /\ recPattern \in MonthlyPatterns) => (DueMovesOn /\ SiblingDiffers)

\* the same for the yearly patterns
YearlyMakesProgress ==
    (nextDue # NotYet /\ recPattern \in YearlyPatterns) => (DueMovesOn /\ SiblingDiffers)

\* 'Buy rec:1m,31 due:2025-01-31' is completed: the sibling is due on
\* 2025-01-31 and is the line itself
C28_Witness ==
    /\ currentDue = ISO(2025, 1, 31)
    /\ recPattern = <<"1", "m", ",", "3", "1">>
    /\ nextDue = currentDue
    /\ siblingLine(RecurringLine) = RecurringLine

-----------------------------------------------------------------------------
(* Renaming a project that has archived tasks: the file starts as at most   *)
(* MaxRenamedLines different lines of RenamedArchiveLines, the project Work *)
(* is known, and no line names the project Home.  Tasks are archived by an  *)
(* edit and unarchived, and the project Work is renamed to Home.            *)

MaxRenamedLines == 1

RenamedArchiveLines ==
    << \* Buy +Work @home
       Words(<<wBuy, wWork, wAtHome>>),
       \* Pay +Archived origProj:Work
       ArchivedFromWork,
       \* Pay rent
       Words(<<wPay, wRent>>),
       \* (A) Buy milk ||note
       NotesSpaced >>

RenamedArchivePicks(n) ==
    {f \in [1..n -> 1..Len(RenamedArchiveLines)] : \A i, j \in 1..n : f[i] = f[j] => i = j}

RenamedArchiveFiles ==
    UNION {{JoinWith([i \in 1..n |-> RenamedArchiveLines[f[i]]], <<NL>>) :
               f \in RenamedArchivePicks(n)} : n \in 1..MaxRenamedLines}

InitRenamedArchive ==
    /\ content \in RenamedArchiveFiles
    /\ todoItems = parseTodoTxt(content)
    /\ today = ISO(2025, 1, 15)
    /\ filterState = InitialFilterState
    /\ filtered = applyFilters(parseTodoTxt(content), InitialFilterState,
                               ISO(2025, 1, 15))
    /\ last = NoOp
    /\ calls = NoCalls
    /\ settings = WorkKnown
    /\ line = <<>>
    /\ item = <<>>
    /\ built = NotYet
    /\ currentDue = <<>>
    /\ recPattern = <<>>
    /\ nextDue = NotYet

NextRenamedArchive ==
    \/ LoadFileContent
    \/ Ready /\ \E i \in 1..Len(todoItems) : UpdateTask(i)
    \/ Ready /\ \E i \in 1..Len(todoItems) : MoveFromArchived(i)
    \/ Ready /\ \E newName \in RenameNames : UpdateProjectName(Tail(wWork), newName)

SpecRenamedArchive == InitRenamedArchive /\ [][NextRenamedArchive]_vars

\* the project Work has been renamed to Home, and the view has not found a
\* task of Work in the file since
WorkRenamed ==
    /\ Tail(wWork) \notin settings.allKnownProjects
    /\ Tail(wHome) \in settings.allKnownProjects

\* a task of the file is in the project name
FileHasProject(name) ==
    \E i \in 1..Len(parseTodoTxt(content)) :
        ArrayIncludes(parseTodoTxt(content)[i].projects, name)

\* after the rename, a task that was archived out of the project is
\* unarchived into Home
UnarchivedIntoNewName ==
    (WorkRenamed /\ Unarchived /\ GetKey(Original.keyValuePairs, wOrigProjKey) # <<>>) =>
        Rewritten.projects = <<Tail(wHome)>>

\* after the rename, no task of the file is in the project Work
OldNameStaysGone == WorkRenamed => ~FileHasProject(Tail(wWork))

\* C29: if a task in project P is archived, then P is renamed to Q with
\* updateProjectName, then the task is unarchived with
\* moveTaskFromArchivedToInbox, the task ends up in project Q; after a
\* rename no later operation brings the old name P back into the file.
C29_RenameReachesArchivedTasks == UnarchivedIntoNewName /\ OldNameStaysGone

\* after Work was renamed to Home, the task archived out of Work was
\* unarchived and is in the project Work
C29_Witness ==
    /\ WorkRenamed
    /\ Unarchived
    /\ last.raw = ArchivedFromWork
    /\ Written = Words(<<wPay, wWork>>)
    /\ FileHasProject(Tail(wWork))

-----------------------------------------------------------------------------
(* Deleting a project: the file starts as at most MaxDeleteLines different  *)
(* lines of DeleteLines and the view has loaded it; the projects Work and   *)
(* Home are pinned and have an icon.  The project filter is set and         *)
(* projects are deleted.  A handler runs as one step.                       *)

MaxDeleteLines == 2

\* 'Buy milk ||see +Work'
NotesNameProject == Words(<<wBuy, wMilk, BARS \o <<"s", "e", "e">>, wWork>>)

DeleteLines ==
    << \* Buy +Work @home
       Words(<<wBuy, wWork, wAtHome>>),
       \* Pay +Workshop
       Words(<<wPay, wWork \o <<"s", "h", "o", "p">> >>),
       \* Buy milk ||see +Work
       NotesNameProject,
       \* Buy +Home +Work
       Words(<<wBuy, wHome, wWork>>),
       \* Pay +Home
       Words(<<wPay, wHome>>),
       \* Pay rent
       Words(<<wPay, wRent>>) >>

DeletePicks(n) ==
    {f \in [1..n -> 1..Len(DeleteLines)] : \A i, j \in 1..n : f[i] = f[j] => i = j}

DeleteFiles ==
    UNION {{JoinWith([i \in 1..n |-> DeleteLines[f[i]]], <<NL>>) : f \in DeletePicks(n)} :
           n \in 1..MaxDeleteLines}

\* the projects Work and Home are known, pinned and have an icon
WorkAndHome ==
    [allKnownProjects |-> RenameNames, pinnedProjects |-> RenameNames,
     projectIcons |-> RenameNames]

InitDelete ==
    /\ content \in DeleteFiles
    /\ todoItems = parseTodoTxt(content)
    /\ today = ISO(2025, 1, 15)
    /\ filterState = InitialFilterState
    /\ filtered = applyFilters(parseTodoTxt(content), InitialFilterState,
                               ISO(2025, 1, 15))
    /\ last = NoOp
    /\ calls = NoCalls
    /\ settings = updateFromTodoItems(WorkAndHome, parseTodoTxt(content))
    /\ line = <<>>
    /\ item = <<>>
    /\ built = NotYet
    /\ currentDue = <<>>
    /\ recPattern = <<>>
    /\ nextDue = NotYet

\* onProjectDelete: the filter leaves the project when it is the selected
\* one
FilterAfterDelete(st, projectName) ==
    IF st.selectedProject = projectName THEN setProjectFilter(st, <<>>) ELSE st

\* the deletion of a project is confirmed: projectManager.onProjectDelete,
\* that is ProjectService.deleteProject (the file, then the sets of the
\* project manager), the filter, and loadFileContent
DeleteProject(projectName) ==
    /\ content' = removeProjectFromTasks(content, projectName)
    /\ todoItems' = parseTodoTxt(removeProjectFromTasks(content, projectName))
    /\ settings' = updateFromTodoItems(
                       deleteProject(settings, projectName),
                       parseTodoTxt(removeProjectFromTasks(content, projectName)))
    /\ filterState' = FilterAfterDelete(filterState, projectName)
    /\ filtered' = applyFilters(
                       parseTodoTxt(removeProjectFromTasks(content, projectName)),
                       FilterAfterDelete(filterState, projectName), today)
    /\ last' = [NoOp EXCEPT !.op = "deleteProject", !.oldName = projectName,
                            !.before = content, !.outcome = "ok"]
    /\ UNCHANGED <<today, line, item, built, currentDue, recPattern, nextDue,
                   calls>>

NextDelete ==
    \/ SetProjectFilter
    \/ \E projectName \in RenameNames : DeleteProject(projectName)

SpecDelete == InitDelete /\ [][NextDelete]_vars

-----------------------------------------------------------------------------
(* What deleting a project is said to remove.                               *)

\* the last handler deleted a project
Deleted == last.op = "deleteProject"

\* the line is of a task in the project name
InProject(l, name) == ArrayIncludes(parseTodoLine(l).projects, name)

\* the file is the lines it had of tasks not in the project, in their order
KeepsOtherLines ==
    content = JoinWith(SelectSeq(LinesBefore, LAMBDA l : ~InProject(l, last.oldName)),
                       <<NL>>)

\* no line of a task in the project is left
RemovesProjectLines ==
    \A k \in 1..Len(LinesAfter) : ~InProject(LinesAfter[k], last.oldName)

\* the project is in none of the sets of the project manager
ForgetsProject ==
    /\ last.oldName \notin settings.allKnownProjects
    /\ last.oldName \notin settings.pinnedProjects
    /\ last.oldName \notin settings.projectIcons

\* C30: deleteProject(P) removes from the file exactly the lines whose
\* parsed projects contain P: every line of a task that is not in project P,
\* also of a project whose name only starts with P and of a task that
\* mentions +P only in its notes, is still in the file, unchanged and in the
\* same order; afterwards P is in none of allKnownProjects, pinnedProjects
\* and projectIcons.
C30_DeleteRemovesExactlyTheProject ==
    Deleted => (KeepsOtherLines /\ RemovesProjectLines /\ ForgetsProject)

\* the parts of C30 that are about the lines of the project and the sets
DeleteRemovesAndForgets == Deleted => (RemovesProjectLines /\ ForgetsProject)

\* the project Work was deleted from the file 'Pay +Workshop' and the file
\* is empty
C30_Witness ==
    /\ Deleted
    /\ last.oldName = Tail(wWork)
    /\ last.before = Words(<<wPay, wWork \o <<"s", "h", "o", "p">> >>)
    /\ content = <<>>

=============================================================================
